---- MODULE Spec2Model ----
(***************************************************************************)
(* Cricbuzz LiveStats: the ETL pipeline of pages/4_SQL_Analytics.py        *)
(* (HTTP fetch layer, upsert layer over the MySQL store, orchestration     *)
(* routines) as a state machine.                                           *)
(*                                                                         *)
(* Conventions.  Python None / SQL NULL is None (-1) in integer columns    *)
(* and NoneStr in text columns; every real integer is >= 0.  Seconds are   *)
(* counted in tenths (backoff 0.8 s is 8).  A Python dict is a TLA+ record *)
(* whose domain is the set of keys present.                                *)
(***************************************************************************)
EXTENDS Integers, Sequences, FiniteSets, TLC

VARIABLES
    RAPIDAPI_KEY,   \* the API key read from the environment ("" when unset)
    API_CALLS,      \* global request counter
    api_trace,      \* st.session_state["api_trace"]
    last,           \* outcome of the most recent api_get call
    seen,           \* for each kind of final response, the result tags api_get has returned for it
    db,             \* the store as the connection sees it
    committed,      \* the store as committed
    autoinc,        \* the AUTO_INCREMENT counters of the store
    run,            \* the orchestration routine in progress: its position and locals
    snap,           \* <<db>> as the first completed run left it, <<>> before
    out,            \* the operation observed last: its arguments, what it returned or showed
    page,           \* the other pages: the st.cache_data cache of Live Matches, the crud_info table
    schema,         \* which objects init_schema and create_views have created in the store
    client          \* the shared CricbuzzAPIClient, the clock, the times of its recent requests

fetchVars == <<API_CALLS, api_trace, last, seen>>
storeVars == <<db, committed, autoinc>>
runVars == <<run, snap, out>>
vars == <<RAPIDAPI_KEY, API_CALLS, api_trace, last, seen, db, committed, autoinc, run, snap, out, page,
          schema, client>>

None == -1
NoneStr == "None"

(***************************************************************************)
(* HTTP fetch layer: api_get                                               *)
(***************************************************************************)
MAX_CALLS == 8          \* MAX_API_CALLS of the environment, scaled down
retries == 5
backoff == 8

\* What one requests.get can meet: a 2xx answer with a JSON body, a 2xx answer
\* whose body is empty or not JSON, HTTP 429, another HTTP error status, or a
\* connection error / timeout raised by requests.get itself.
Kinds == {"json", "badbody", "h429", "h5xx", "neterr"}
FailKinds == {"h429", "h5xx", "neterr"}
StreamLen == retries + 2

\* The answers the server would give to the successive requests of one call.
\* The first j answers are f, the answers j+1..k are g, the rest are t.
Streams ==
    { [i \in 1..StreamLen |-> IF i <= j THEN f ELSE IF i <= k THEN g ELSE t] :
        j \in 0..1, k \in {0, 1, 2, retries, retries + 1},
        f \in FailKinds, g \in FailKinds, t \in Kinds }

\* requests.get returned a response object (it did not raise)
got_response(resp) == resp /= "neterr"

\* requests.get raised, or resp.raise_for_status() raised HTTPError
raises_RequestException(resp) == resp \in {"neterr", "h429", "h5xx"}

\* the guard of the key check
key_missing_never(key) == FALSE
key_missing(key) == key = ""

\* the guard of the budget check at the entry of api_get
cap_reached(calls) == calls >= MAX_CALLS

\* the guard that ends the retry loop
retries_exhausted_late(attempt) == attempt > retries + 1
retries_exhausted(attempt) == attempt > retries

\* the sleep before the next attempt
wait(attempt) == backoff * attempt

\* The while-True loop of api_get from its i-th request on.  s carries the
\* counter, the trace, the responses received and the sleeps slept so far.
RECURSIVE api_get_loop(_, _, _, _)
api_get_loop(s, attempt, stream, i) ==
    LET resp == stream[i]
        s1 == [s EXCEPT
                 !.reqs  = Append(@, resp),
                 !.calls = IF got_response(resp) THEN @ + 1 ELSE @,
                 !.trace = IF got_response(resp) THEN Append(@, s.calls + 1) ELSE @]
    IN  IF raises_RequestException(resp)
        THEN LET a == attempt + 1 IN
             IF retries_exhausted(a)
             THEN [s1 EXCEPT !.result = "None"]
             ELSE api_get_loop([s1 EXCEPT !.sleeps = Append(@, wait(a))], a, stream, i + 1)
        ELSE IF resp = "json"
             THEN [s1 EXCEPT !.result = "json"]
             ELSE [s1 EXCEPT !.result = "None"]

\* api_get(url, params): result is "json" (parsed body), "None", or
\* "RuntimeError" (raised; err says which one).
api_get(calls, trace, key, stream) ==
    LET s0 == [result |-> "RuntimeError", err |-> "", calls |-> calls,
               trace |-> trace, reqs |-> <<>>, sleeps |-> <<>>]
    IN  IF key_missing(key) THEN [s0 EXCEPT !.err = "key"]
        ELSE IF cap_reached(calls) THEN [s0 EXCEPT !.err = "cap"]
        ELSE api_get_loop(s0, 0, stream, 1)

\* before the first call
NoCall == [result |-> "", err |-> "", reqs |-> <<>>, sleeps |-> <<>>]

\* what a call did: its result, its requests' answers and its sleeps
Outcome(r) == [result |-> r.result, err |-> r.err, reqs |-> r.reqs, sleeps |-> r.sleeps]

\* the response that ended a call, "" when the call issued no request
Cause(r) == IF r.reqs = <<>> THEN "" ELSE r.reqs[Len(r.reqs)]

Saw(sn, r) ==
    IF Cause(r) = "" THEN sn ELSE [sn EXCEPT ![Cause(r)] = @ \cup {r.result}]

(***************************************************************************)
(* Values of the API's JSON and tiny helpers                               *)
(***************************************************************************)
\* A numeric JSON value that int() cannot parse, such as "abc".
Bad == -2

EmptyDict == [x \in {} |-> x]

\* dict.get(k) for an integer-valued, a text-valued and a dict/list-valued key
GetI(d, k) == IF k \in DOMAIN d THEN d[k] ELSE None
GetS(d, k) == IF k \in DOMAIN d THEN d[k] ELSE NoneStr
GetD(d, k) == IF k \in DOMAIN d THEN d[k] ELSE EmptyDict

\* Python truthiness and `a or b`
TruthyI(a) == a /= None /\ a /= 0
TruthyS(a) == a /= NoneStr /\ a /= ""
OrI(a, b) == IF TruthyI(a) THEN a ELSE b
OrS(a, b) == IF TruthyS(a) THEN a ELSE b
OrD(a, b) == IF a /= EmptyDict THEN a ELSE b

\* _to_int(x, default): never raises
_to_int(x, default) == IF x = None \/ x = Bad THEN default ELSE x

\* _short(text, n)
_short(text, n) ==
    IF text = NoneStr THEN NoneStr
    ELSE IF Len(text) <= n THEN text ELSE SubSeq(text, 1, n)

Digit == [c \in {"0", "1", "2", "3", "4", "5", "6", "7", "8", "9"} |->
            CASE c = "0" -> 0 [] c = "1" -> 1 [] c = "2" -> 2 [] c = "3" -> 3
              [] c = "4" -> 4 [] c = "5" -> 5 [] c = "6" -> 6 [] c = "7" -> 7
              [] c = "8" -> 8 [] c = "9" -> 9]

\* str.isdigit()
isdigit(s) == Len(s) > 0 /\ \A i \in 1..Len(s) : SubSeq(s, i, i) \in DOMAIN Digit

\* int(s) of a digit string
RECURSIVE int_of(_)
int_of(s) ==
    IF Len(s) = 0 THEN 0
    ELSE 10 * int_of(SubSeq(s, 1, Len(s) - 1)) + Digit[SubSeq(s, Len(s), Len(s))]

Pad2(n) == IF n < 10 THEN "0" \o ToString(n) ELSE ToString(n)

\* time.strftime("%Y-%m-%d", time.gmtime(x)) for x seconds after the epoch
strftime_gmtime(x) ==
    LET z   == (x \div 86400) + 719468
        era == z \div 146097
        doe == z - era * 146097
        yoe == (doe - (doe \div 1460) + (doe \div 36524) - (doe \div 146096)) \div 365
        doy == doe - (365 * yoe + (yoe \div 4) - (yoe \div 100))
        mp  == (5 * doy + 2) \div 153
        d   == doy - ((153 * mp + 2) \div 5) + 1
        m   == IF mp < 10 THEN mp + 3 ELSE mp - 9
        y   == yoe + era * 400 + (IF m <= 2 THEN 1 ELSE 0)
    IN  ToString(y) \o "-" \o Pad2(m) \o "-" \o Pad2(d)

\* x > 10_000_000_000 for the digit string s (epoch milliseconds)
is_epoch_ms(s) == Len(s) > 11 \/ (Len(s) = 11 /\ s /= "10000000000")

\* _to_date(value) for a text value: an ISO-like string keeps its first ten
\* characters, a digit string is an epoch in seconds or milliseconds, anything
\* else gives None.
_to_date(value) ==
    IF value = NoneStr THEN NoneStr
    ELSE IF Len(value) >= 10 /\ SubSeq(value, 5, 5) = "-" /\ SubSeq(value, 8, 8) = "-"
         THEN SubSeq(value, 1, 10)
    ELSE IF isdigit(value)
         THEN strftime_gmtime(int_of(IF is_epoch_ms(value)
                                     THEN SubSeq(value, 1, Len(value) - 3)
                                     ELSE value))
    ELSE NoneStr

(***************************************************************************)
(* The relational store behind one connection.                             *)
(*   db        what the connection sees (committed and pending writes)     *)
(*   committed what a commit has made durable                              *)
(*   autoinc   the AUTO_INCREMENT counters, which a rollback does not undo *)
(* Tables with a primary key supplied by the API are functions from the    *)
(* key to the row; venues is a set of rows carrying venue_id; the fact     *)
(* tables, whose only key is their AUTO_INCREMENT id, are the sequences of *)
(* their rows in id order.                                                 *)
(* The operations below take and return a record s = [db, committed,       *)
(* autoinc, calls, trace, last, exc, ret, refused]: calls, trace and last  *)
(* are the fetch layer's counter, trace and latest call; exc is the        *)
(* exception that left the operation ("" when none), ret its return value, *)
(* refused whether api_get has refused a call of the current run because   *)
(* the budget was used up.                                                 *)
(***************************************************************************)
EmptyDb ==
    [teams |-> EmptyDict, players |-> EmptyDict, series |-> EmptyDict,
     venues |-> {}, matches |-> EmptyDict,
     batting_stats |-> <<>>, bowling_stats |-> <<>>,
     partnerships |-> <<>>, fielding_stats |-> <<>>]

\* INSERT IGNORE: a stored key keeps its row
Put_ignore(tbl, k, row) == IF k \in DOMAIN tbl THEN tbl ELSE [x \in (DOMAIN tbl) \cup {k} |-> IF x = k THEN row ELSE tbl[x]]
Put(tbl, k, row) == [x \in (DOMAIN tbl) \cup {k} |-> IF x = k THEN row ELSE tbl[x]]

Raise(s, e) == [s EXCEPT !.exc = e]
Return(s, v) == [s EXCEPT !.ret = v]

\* conn.commit() and conn.rollback()
commit(s) == [s EXCEPT !.committed = s.db]
\* a rollback that also drops what was committed
rollback_everything(s) == [s EXCEPT !.db = EmptyDb, !.committed = EmptyDb]
rollback(s) == [s EXCEPT !.db = s.committed]

\* resolve_team_id(conn, team_name): the first team whose name or short name is team_name
resolve_team_id(s, team_name) ==
    IF ~TruthyS(team_name) THEN None
    ELSE LET hit == {t \in DOMAIN s.db.teams :
                        s.db.teams[t].name = team_name \/ s.db.teams[t].short_name = team_name}
         IN  IF hit = {} THEN None ELSE CHOOSE t \in hit : \A u \in hit : t <= u

\* upsert_team(conn, team)
upsert_team(s, team) ==
    LET team_id == OrI(OrI(GetI(team, "teamId"), GetI(team, "id")), 0) IN
    IF team_id = Bad THEN Raise(s, "ValueError")
    ELSE IF team_id = 0 THEN s
    ELSE LET name    == OrS(GetS(team, "teamName"), GetS(team, "name"))
             sname   == OrS(OrS(GetS(team, "teamSName"), GetS(team, "shortName")),
                            GetS(team, "sName"))
             country == OrS(GetS(team, "country"), name)
         IN  [s EXCEPT !.db.teams =
                 Put(@, team_id, [name |-> name, short_name |-> sname, country |-> country])]

\* safe_capacity(val) of get_or_create_venue
safe_capacity(val) == IF val = None \/ val = Bad THEN None ELSE val

CoalesceS(x) == IF x = NoneStr THEN "" ELSE x
CoalesceI(x) == IF x = None THEN 0 ELSE x
Greatest(a, b) == IF a >= b THEN a ELSE b

\* the UPDATE of get_or_create_venue for a venue that exists
venue_capacity_update(old, new) == Greatest(CoalesceI(old), CoalesceI(new))

\* get_or_create_venue with a lookup that compares city and country with `=`,
\* which a NULL never satisfies
get_or_create_venue_null_unmatched(s, name, city, country, capacity) ==
    IF ~TruthyS(name) THEN Return(s, None)
    ELSE
    LET cap == safe_capacity(capacity)
        hit == {v \in s.db.venues :
                   /\ v.name = name
                   /\ v.city /= NoneStr /\ v.city = city
                   /\ v.country /= NoneStr /\ v.country = country}
    IN  IF hit /= {}
        THEN LET vid == (CHOOSE v \in hit : \A u \in hit : v.venue_id <= u.venue_id).venue_id IN
             Return([s EXCEPT !.db.venues =
                        {IF v.venue_id = vid
                         THEN [v EXCEPT !.capacity = venue_capacity_update(v.capacity, cap)]
                         ELSE v : v \in @}],
                    vid)
        ELSE Return([s EXCEPT
                        !.db.venues = @ \cup {[venue_id |-> s.autoinc.venues, name |-> name,
                                               city |-> city, country |-> country,
                                               capacity |-> cap]},
                        !.autoinc.venues = @ + 1],
                    s.autoinc.venues)
\* get_or_create_venue(conn, name, city, country, capacity); ret is the venue id
get_or_create_venue(s, name, city, country, capacity) ==
    IF ~TruthyS(name) THEN Return(s, None)
    ELSE
    LET cap == safe_capacity(capacity)
        hit == {v \in s.db.venues :
                   /\ v.name = name
                   /\ CoalesceS(v.city) = CoalesceS(city)
                   /\ CoalesceS(v.country) = CoalesceS(country)}
    IN  IF hit /= {}
        THEN LET vid == (CHOOSE v \in hit : \A u \in hit : v.venue_id <= u.venue_id).venue_id IN
             Return([s EXCEPT !.db.venues =
                        {IF v.venue_id = vid
                         THEN [v EXCEPT !.capacity = venue_capacity_update(v.capacity, cap)]
                         ELSE v : v \in @}],
                    vid)
        ELSE Return([s EXCEPT
                        !.db.venues = @ \cup {[venue_id |-> s.autoinc.venues, name |-> name,
                                               city |-> city, country |-> country,
                                               capacity |-> cap]},
                        !.autoinc.venues = @ + 1],
                    s.autoinc.venues)

\* bucket["matchDetailsMap"].get("match", []) of a bucket of matchDetails
BucketMatches(bucket) ==
    IF "matchDetailsMap" \in DOMAIN bucket THEN GetD(bucket.matchDetailsMap, "match") ELSE <<>>

\* upsert_series: the matchInfo of the first match of the first bucket that
\* has matches (EmptyDict when there is none)
RECURSIVE first_match_of(_)
first_match_of(md) ==
    IF md = <<>> THEN EmptyDict
    ELSE IF BucketMatches(Head(md)) /= <<>>
         THEN GetD(Head(BucketMatches(Head(md))), "matchInfo")
         ELSE first_match_of(Tail(md))

RECURSIVE count_matches(_)
count_matches(md) ==
    IF md = <<>> THEN 0 ELSE Len(BucketMatches(Head(md))) + count_matches(Tail(md))

\* upsert_series(conn, s): every column is overwritten with the payload's value
upsert_series(s, sr) ==
    LET sid == OrI(OrI(GetI(sr, "seriesId"), GetI(sr, "id")), 0) IN
    IF sid = Bad THEN Raise(s, "ValueError")
    ELSE IF sid = 0 THEN s
    ELSE
    LET name  == OrS(GetS(sr, "seriesName"), GetS(sr, "name"))
        md    == GetD(sr, "matchDetails")
        fm    == first_match_of(md)
        vinfo == GetD(fm, "venueInfo")
        host0 == GetS(sr, "hostCountry")
        type0 == GetS(sr, "matchType")
        tot0  == GetI(sr, "totalMatches")
        host  == IF md /= <<>> /\ fm /= EmptyDict /\ ~TruthyS(host0)
                 THEN OrS(GetS(vinfo, "country"), GetS(vinfo, "city")) ELSE host0
        type  == IF md /= <<>> /\ fm /= EmptyDict /\ ~TruthyS(type0)
                 THEN GetS(fm, "matchFormat") ELSE type0
        total == IF md /= <<>> /\ ~TruthyI(tot0) THEN count_matches(md) ELSE tot0
    IN  [s EXCEPT !.db.series = Put(@, sid,
            [name |-> name, host_country |-> host, match_type |-> type,
             start_date |-> _to_date(OrS(GetS(sr, "seriesStartDt"), GetS(sr, "startDt"))),
             end_date |-> _to_date(OrS(GetS(sr, "seriesEndDt"), GetS(sr, "endDt"))),
             total_matches |-> total])]

(***************************************************************************)
(* Fetches made inside the upsert layer and the orchestration routines.    *)
(* body is the JSON the API serves at the URL; stream is how the server    *)
(* answers the successive requests of this call.  ret is the parsed body,  *)
(* or EmptyDict for None (every caller only tests `not data`).             *)
(***************************************************************************)
fetch(s, key, body, stream) ==
    LET r  == api_get(s.calls, s.trace, key, stream)
        s1 == [s EXCEPT !.calls = r.calls, !.trace = r.trace, !.last = Outcome(r),
                        !.refused = @ \/ (r.result = "RuntimeError" /\ r.err = "cap")]
    IN  IF r.result = "RuntimeError" THEN Raise(Return(s1, EmptyDict), "RuntimeError")
        ELSE IF r.result = "json" THEN Return(s1, body)
        ELSE Return(s1, EmptyDict)

RECURSIVE lstrip(_)
lstrip(t) == IF Len(t) > 0 /\ Head(t) = " " THEN lstrip(Tail(t)) ELSE t
RECURSIVE rstrip(_)
rstrip(t) ==
    IF Len(t) > 0 /\ SubSeq(t, Len(t), Len(t)) = " " THEN rstrip(SubSeq(t, 1, Len(t) - 1)) ELSE t

\* upsert_match_basic: a win margin that is a number is coerced with int(),
\* which the VARCHAR column stores as its digits
coerce_margin(wm) ==
    IF wm /= NoneStr /\ isdigit(rstrip(lstrip(wm))) THEN rstrip(lstrip(wm)) ELSE wm

\* upsert_match_basic: the fields read from the list payload
basic_fields(m) ==
    LET toss   == OrD(GetD(m, "tossResults"), GetD(m, "toss"))
        result == GetD(m, "result")
    IN  [winner_id |->
             IF "matchWinner" \in DOMAIN m THEN _to_int(GetI(m.matchWinner, "teamId"), None)
             ELSE IF TruthyI(_to_int(GetI(m, "winnerTeamId"), None))
                  THEN _to_int(GetI(m, "winnerTeamId"), None)
                  ELSE None,
         toss_winner_id |->
             _to_int(OrI(GetI(toss, "tossWinnerId"), GetI(toss, "winnerId")), None),
         toss_decision |-> OrS(GetS(toss, "decision"), GetS(toss, "tossDecision")),
         win_margin |-> OrS(OrS(GetS(result, "resultMargin"), GetS(result, "margin")),
                            GetS(m, "winMargin")),
         victory_type |->
             _short(OrS(OrS(GetS(result, "resultType"), GetS(result, "victoryType")),
                        GetS(m, "status")), 50)]

\* the test that decides the match-center fetch
need_mcenter(f) ==
    \/ f.winner_id = None
    \/ f.toss_winner_id = None
    \/ f.toss_decision = NoneStr
    \/ f.win_margin = NoneStr
    \/ f.victory_type = NoneStr

\* upsert_match_basic: the fields after the match-center body mc was read
enrich_from_mcenter(f, mc) ==
    LET hdr  == GetD(mc, "matchHeader")
        toss == GetD(hdr, "tossResults")
        res  == GetD(hdr, "result")
    IN  [winner_id |-> OrI(f.winner_id, _to_int(GetI(hdr, "winningTeamId"), None)),
         toss_winner_id |->
             OrI(f.toss_winner_id,
                 _to_int(OrI(GetI(toss, "tossWinnerId"), GetI(toss, "winnerId")), None)),
         toss_decision |->
             OrS(OrS(f.toss_decision, GetS(toss, "decision")), GetS(toss, "tossDecision")),
         win_margin |->
             OrS(OrS(f.win_margin, GetS(res, "resultMargin")), GetS(res, "margin")),
         victory_type |->
             _short(OrS(OrS(OrS(f.victory_type, GetS(res, "resultType")),
                            GetS(res, "victoryType")), GetS(hdr, "status")), 50)]

\* the foreign keys of matches: a non-null reference must exist
match_fk_ok(d, series_id, team1_id, team2_id, venue_id) ==
    /\ series_id = None \/ series_id \in DOMAIN d.series
    /\ team1_id = None \/ team1_id \in DOMAIN d.teams
    /\ team2_id = None \/ team2_id \in DOMAIN d.teams
    /\ venue_id = None \/ \E v \in d.venues : v.venue_id = venue_id

\* the row INSERT ... ON DUPLICATE KEY UPDATE leaves for the match: every
\* column takes the value of this call
match_row(series_id, team1_id, team2_id, mdate, venue_id, f, mformat, desc) ==
    [series_id |-> series_id, team1_id |-> team1_id, team2_id |-> team2_id,
     match_date |-> mdate, venue_id |-> venue_id, winner_id |-> f.winner_id,
     win_margin |-> coerce_margin(f.win_margin), victory_type |-> f.victory_type,
     toss_winner_id |-> f.toss_winner_id, toss_decision |-> f.toss_decision,
     match_format |-> mformat, description |-> desc]

\* `if team_id: upsert_team(conn, t)` of upsert_match_basic
upsert_listed_team(s, t) ==
    IF TruthyI(_to_int(OrI(GetI(t, "teamId"), GetI(t, "id")), 0)) THEN upsert_team(s, t) ELSE s

\* the two upsert_team calls of upsert_match_basic
match_teams(s, m) ==
    upsert_listed_team(upsert_listed_team(s, GetD(m, "team1")), GetD(m, "team2"))

\* the get_or_create_venue call of upsert_match_basic; ret is the venue id
match_venue(s, m) ==
    LET vinfo == OrD(GetD(m, "venueInfo"), GetD(m, "venue")) IN
    get_or_create_venue(s, OrS(GetS(vinfo, "ground"), GetS(vinfo, "name")),
                        GetS(vinfo, "city"), GetS(vinfo, "country"), GetI(vinfo, "capacity"))

\* the INSERT ... ON DUPLICATE KEY UPDATE of upsert_match_basic.  sd is the
\* state the match-center fetch left (the state before it when the fetch was
\* not needed); an exception of the fetch is swallowed and drops the enrichment.
match_insert(sd, venue_id, m, series_id) ==
    LET mid      == _to_int(OrI(GetI(m, "matchId"), GetI(m, "id")), None)
        t1       == GetD(m, "team1")
        t2       == GetD(m, "team2")
        team1_id == _to_int(OrI(GetI(t1, "teamId"), GetI(t1, "id")), 0)
        team2_id == _to_int(OrI(GetI(t2, "teamId"), GetI(t2, "id")), 0)
        mdate    == _to_date(OrS(OrS(GetS(m, "matchDate"), GetS(m, "startDate")),
                                 GetS(m, "startTime")))
        f0       == basic_fields(m)
        mformat  == OrS(GetS(m, "matchFormat"), GetS(m, "format"))
        desc     == OrS(OrS(OrS(GetS(m, "matchDescription"), GetS(m, "matchDesc")),
                            GetS(m, "seriesName")), GetS(m, "status"))
        f1       == IF need_mcenter(f0) /\ sd.exc = "" THEN enrich_from_mcenter(f0, sd.ret)
                    ELSE f0
    IN  IF ~match_fk_ok(sd.db, series_id, team1_id, team2_id, venue_id)
        THEN [sd EXCEPT !.exc = "IntegrityError", !.ret = None]
        ELSE [sd EXCEPT !.exc = "", !.ret = None,
                        !.db.matches =
                            Put(@, mid, match_row(series_id, team1_id, team2_id, mdate,
                                                  venue_id, f1, mformat, desc))]

\* the match-center enrichment of upsert_match_basic and what follows it
match_center(sc, m, series_id, key, mc, stream) ==
    match_insert(IF need_mcenter(basic_fields(m)) THEN fetch(sc, key, mc, stream) ELSE sc,
                 sc.ret, m, series_id)

\* upsert_match_basic(conn, m, series_id); mc is the match-center JSON of the
\* match and stream the answers to its fetch
upsert_match_basic(s, m, series_id, key, mc, stream) ==
    IF ~TruthyI(_to_int(OrI(GetI(m, "matchId"), GetI(m, "id")), None)) THEN s
    ELSE match_center(match_venue(match_teams(s, m), m), m, series_id, key, mc, stream)

(***************************************************************************)
(* Fact rows.  Strike rate and economy are in hundredths, overs in tenths. *)
(***************************************************************************)
\* for item in seq (with its 1-based position), until an exception leaves the loop
RECURSIVE ForEach(_, _, _, _)
ForEach(Body(_, _, _), s, seq, i) ==
    IF i > Len(seq) \/ s.exc /= "" THEN s
    ELSE ForEach(Body, Body(s, seq[i], i), seq, i + 1)

\* try: ... except Exception: print(...)
Try(s) == [s EXCEPT !.exc = ""]

\* safe_int(val, default) and safe_float(val, default) of the insert helpers
safe_int(val, default) == IF val = None \/ val = Bad THEN default ELSE val
safe_float(val, default) == IF val = None \/ val = Bad THEN default ELSE val

\* round((runs / balls) * 100, 2) in hundredths, ties to the even hundredth
strike_rate_of(runs, balls) ==
    LET num == runs * 10000
        q   == num \div balls
        r2  == 2 * (num % balls)
    IN  IF r2 > balls \/ (r2 = balls /\ q % 2 = 1) THEN q + 1 ELSE q

\* "not out" in out_desc, for the dismissal texts of the scorecards
RECURSIVE contains(_, _)
contains(t, sub) ==
    IF Len(t) < Len(sub) THEN FALSE
    ELSE IF SubSeq(t, 1, Len(sub)) = sub THEN TRUE
    ELSE contains(Tail(t), sub)

Upper == "ABCDEFGHIJKLMNOPQRSTUVWXYZ"
Lower == "abcdefghijklmnopqrstuvwxyz"
lower_char(c) ==
    IF \E i \in 1..26 : SubSeq(Upper, i, i) = c
    THEN LET i == CHOOSE i \in 1..26 : SubSeq(Upper, i, i) = c IN SubSeq(Lower, i, i)
    ELSE c
RECURSIVE lower(_)
lower(t) == IF Len(t) = 0 THEN "" ELSE lower_char(Head(t)) \o lower(Tail(t))

\* insert_batting_score: out / not out detection
is_out_of(b) ==
    IF "isOut" \in DOMAIN b THEN (IF b.isOut THEN 1 ELSE 0)
    ELSE LET out_desc == lower(OrS(GetS(b, "outDesc"), "")) IN
         IF contains(out_desc, "not out") THEN 0
         ELSE IF out_desc /= "" THEN 1 ELSE None

\* the foreign keys of the fact tables
fact_fk_ok(d, mid, pid) == mid \in DOMAIN d.matches /\ pid \in DOMAIN d.players

\* INSERT ... ON DUPLICATE KEY UPDATE into a fact table: the table's only
\* unique key is its AUTO_INCREMENT id, which the statement does not supply,
\* so no existing row ever conflicts
insert_fact(rows, row) == Append(rows, row)

\* insert_batting_score(conn, mid, innings_no, team_id, b, order)
insert_batting_score(s, mid, innings_no, team_id, b, order) ==
    LET pid == OrI(OrI(GetI(b, "playerId"), GetI(b, "id")), 0) IN
    IF pid = Bad THEN Raise(s, "ValueError")
    ELSE IF pid = 0 THEN s
    ELSE
    LET runs  == safe_int(GetI(b, "runs"), 0)
        balls == safe_int(OrI(GetI(b, "balls"), GetI(b, "ballsFaced")), 0)
        fours == safe_int(GetI(b, "fours"), 0)
        sixes == safe_int(GetI(b, "sixes"), 0)
        sr0   == safe_float(OrI(OrI(GetI(b, "strkrate"), GetI(b, "strikeRate")),
                                GetI(b, "sr")), None)
        sr    == IF sr0 = None /\ balls > 0 THEN strike_rate_of(runs, balls) ELSE sr0
        tid1  == IF ~TruthyI(team_id) THEN safe_int(GetI(b, "teamId"), 0) ELSE team_id
        tid2  == IF ~TruthyI(tid1)
                 THEN resolve_team_id(s, OrS(GetS(b, "teamName"), GetS(b, "team")))
                 ELSE tid1
        pos   == IF order /= None THEN order
                 ELSE safe_int(OrI(GetI(b, "battingOrder"), GetI(b, "order")), None)
    IN  IF ~fact_fk_ok(s.db, mid, pid) THEN Raise(s, "IntegrityError")
        ELSE [s EXCEPT !.db.batting_stats = insert_fact(@,
                 [match_id |-> mid, player_id |-> pid, team_id |-> tid2, runs |-> runs,
                  balls |-> balls, fours |-> fours, sixes |-> sixes, strike_rate |-> sr,
                  innings_no |-> innings_no, batting_pos |-> pos, is_out |-> is_out_of(b)])]

\* insert_bowling_figures(conn, mid, innings_no, team_id, bw)
insert_bowling_figures(s, mid, innings_no, team_id, bw) ==
    LET pid == OrI(OrI(GetI(bw, "playerId"), GetI(bw, "id")), 0) IN
    IF pid = Bad THEN Raise(s, "ValueError")
    ELSE IF pid = 0 THEN s
    ELSE IF ~fact_fk_ok(s.db, mid, pid) THEN Raise(s, "IntegrityError")
    ELSE [s EXCEPT !.db.bowling_stats = insert_fact(@,
             [match_id |-> mid, player_id |-> pid, team_id |-> team_id,
              overs |-> safe_float(OrI(GetI(bw, "overs"), GetI(bw, "o")), 0),
              maidens |-> safe_int(OrI(GetI(bw, "maidens"), GetI(bw, "m")), 0),
              runs |-> safe_int(OrI(GetI(bw, "runs"), GetI(bw, "r")), 0),
              wickets |-> safe_int(OrI(GetI(bw, "wickets"), GetI(bw, "w")), 0),
              economy |-> safe_float(OrI(GetI(bw, "economy"), GetI(bw, "eco")), None),
              innings_no |-> innings_no])]

\* insert_partnership(conn, mid, innings_no, p1, p2, runs, balls, pos_diff)
insert_partnership(s, mid, innings_no, p1, p2, runs, balls, pos_diff) ==
    IF mid \notin DOMAIN s.db.matches THEN Raise(s, "IntegrityError")
    ELSE [s EXCEPT !.db.partnerships = insert_fact(@,
             [match_id |-> mid, innings_no |-> innings_no, player1_id |-> p1,
              player2_id |-> p2, runs |-> runs, balls |-> balls,
              pair_pos_diff |-> pos_diff])]

\* insert_fielding(conn, mid, pid, catches, stumpings)
insert_fielding(s, mid, pid, catches, stumpings) ==
    IF ~TruthyI(pid) THEN s
    ELSE IF ~fact_fk_ok(s.db, mid, pid) THEN Raise(s, "IntegrityError")
    ELSE [s EXCEPT !.db.fielding_stats = insert_fact(@,
             [match_id |-> mid, player_id |-> pid,
              catches |-> safe_int(catches, 0), stumpings |-> safe_int(stumpings, 0)])]

\* derive_partnerships_from_batsmen(batsmen): [exc, parts]; exc is
\* "ValueError" when int() meets a value it cannot parse.  pair holds the ids
\* of current_pair.
\* current_pair after a completed pair
next_pair_empty(pair) == <<>>
next_pair(pair) == <<pair[2]>>

RECURSIVE derive_loop(_, _, _, _, _)
derive_loop(batsmen, pair, runs_accum, balls_accum, partnerships) ==
    IF batsmen = <<>> THEN [exc |-> "", parts |-> partnerships]
    ELSE
    LET b == Head(batsmen)
        pid == GetI(b, "id")
        runs == OrI(GetI(b, "runs"), 0)
        balls == OrI(GetI(b, "balls"), 0)
        pair1 == Append(pair, pid)
    IN  IF runs = Bad \/ balls = Bad THEN [exc |-> "ValueError", parts |-> <<>>]
        ELSE IF Len(pair1) = 2
        THEN derive_loop(Tail(batsmen), next_pair(pair1), 0, 0,
                 Append(partnerships,
                        [player1Id |-> pair1[1], player2Id |-> pair1[2],
                         runs |-> runs_accum + runs, balls |-> balls_accum + balls]))
        ELSE derive_loop(Tail(batsmen), pair1, runs_accum + runs, balls_accum + balls,
                         partnerships)

derive_partnerships_from_batsmen(batsmen) == derive_loop(batsmen, <<>>, 0, 0, <<>>)

(***************************************************************************)
(* parse_scorecard.  A dict the code walks with .items() (batsmenData,     *)
(* bowlersData, fieldingData) is the sequence of its [key, val] entries.   *)
(***************************************************************************)
\* position of the first "_" of t at or after position i, 0 when there is none
RECURSIVE find_underscore(_, _)
find_underscore(t, i) ==
    IF i > Len(t) THEN 0
    ELSE IF SubSeq(t, i, i) = "_" THEN i ELSE find_underscore(t, i + 1)

\* int(key.split("_")[1]) if "_" in key else None; None as well when int() fails
order_of_key(key) ==
    LET u1 == find_underscore(key, 1) IN
    IF u1 = 0 THEN None
    ELSE LET u2   == find_underscore(key, u1 + 1)
             part == SubSeq(key, u1 + 1, IF u2 = 0 THEN Len(key) ELSE u2 - 1)
         IN  IF isdigit(part) THEN int_of(part) ELSE None

\* the fielder loop of the flat shape and the fieldingData loop of the nested
\* shape: the id is parsed inside try, the counts outside of it
fielding_row(st, mid, rawpid, fd) ==
    LET pid == IF rawpid = Bad THEN 0 ELSE rawpid IN
    IF pid = 0 THEN st
    ELSE LET catches == OrI(GetI(fd, "catches"), 0)
             stump   == OrI(OrI(GetI(fd, "stumpings"), GetI(fd, "st")), 0)
         IN  IF catches = Bad \/ stump = Bad THEN Raise(st, "ValueError")
             ELSE Try(insert_fielding(st, mid, pid, catches, stump))

\* one partnership entry of the partnerships loop
partnership_row(st, mid, inn_idx, p) ==
    LET p1    == OrI(OrI(GetI(p, "player1Id"), GetI(p, "p1Id")), GetI(p, "strikerId"))
        p2    == OrI(OrI(GetI(p, "player2Id"), GetI(p, "p2Id")), GetI(p, "nonStrikerId"))
        runs  == OrI(OrI(GetI(p, "runs"), GetI(p, "r")), 0)
        balls == OrI(OrI(GetI(p, "balls"), GetI(p, "b")), 0)
    IN  IF TruthyI(p1) /\ TruthyI(p2)
        THEN IF Bad \in {p1, p2, runs, balls} THEN st
             ELSE Try(insert_partnership(st, mid, inn_idx, p1, p2, runs, balls, None))
        ELSE st

\* Case 1 of a card, the flat shape: batsman, bowler and fielder lists
flat_batsmen(s, mid, card, inn_idx) ==
    IF "batsman" \in DOMAIN card
    THEN ForEach(LAMBDA st, b, order :
                     Try(insert_batting_score(st, mid, inn_idx,
                                              OrI(GetI(card, "batteamid"), None), b, order)),
                 s, card.batsman, 1)
    ELSE s

flat_bowlers(s, mid, card, inn_idx) ==
    IF "bowler" \in DOMAIN card
    THEN ForEach(LAMBDA st, bw, i :
                     Try(insert_bowling_figures(st, mid, inn_idx,
                                                OrI(GetI(card, "bowlteamid"), None), bw)),
                 s, card.bowler, 1)
    ELSE s

flat_fielders(s, mid, card) ==
    IF "fielder" \in DOMAIN card
    THEN ForEach(LAMBDA st, fd, i : fielding_row(st, mid, OrI(GetI(fd, "id"), 0), fd),
                 s, card.fielder, 1)
    ELSE s

\* Case 2 of a card, the nested shape: batsmenData and bowlersData
nested_batsmen(s, mid, card, inn_idx) ==
    ForEach(LAMBDA st, e, i :
                Try(insert_batting_score(st, mid, inn_idx,
                                         GetI(GetD(card, "batTeamDetails"), "teamId"),
                                         e.val, order_of_key(e.key))),
            s, GetD(GetD(card, "batTeamDetails"), "batsmenData"), 1)

nested_bowlers(s, mid, card, inn_idx) ==
    ForEach(LAMBDA st, e, i :
                Try(insert_bowling_figures(st, mid, inn_idx,
                                           GetI(GetD(card, "bowlTeamDetails"), "teamId"),
                                           e.val)),
            s, GetD(GetD(card, "bowlTeamDetails"), "bowlersData"), 1)

\* the partnerships of a card: those the API gives, else those derived from
\* the flat batsman list
card_partnerships(s, mid, card, inn_idx) ==
    LET given   == OrD(GetD(card, "partnerships"),
                       GetD(GetD(card, "batTeamDetails"), "partnerships"))
        derived == IF given = <<>> /\ "batsman" \in DOMAIN card
                   THEN derive_partnerships_from_batsmen(card.batsman)
                   ELSE [exc |-> "", parts |-> given]
    IN  IF s.exc /= "" THEN s
        ELSE IF derived.exc /= "" THEN Raise(s, derived.exc)
        ELSE ForEach(LAMBDA st, p, i : partnership_row(st, mid, inn_idx, p),
                     s, derived.parts, 1)

\* the fieldingData of the nested shape
nested_fielding(s, mid, card) ==
    ForEach(LAMBDA st, e, i :
                fielding_row(st, mid, OrI(OrI(GetI(e.val, "playerId"), e.key), 0), e.val),
            s, GetD(card, "fieldingData"), 1)

\* the body of `for inn_idx, card in enumerate(cards, start=1)`
parse_card(s, mid, card, inn_idx) ==
    nested_fielding(
        card_partnerships(
            nested_bowlers(
                nested_batsmen(
                    flat_fielders(
                        flat_bowlers(
                            flat_batsmen(s, mid, card, inn_idx),
                            mid, card, inn_idx),
                        mid, card),
                    mid, card, inn_idx),
                mid, card, inn_idx),
            mid, card, inn_idx),
        mid, card)

\* the conn.commit() that ends a block unless an exception left the block
commit_unless_raised(s) == IF s.exc /= "" THEN s ELSE commit(s)

\* parse_scorecard(conn, mid, sc_json): all cards, then one commit
parse_scorecard(s, mid, sc_json) ==
    LET cards == OrD(GetD(sc_json, "scoreCard"), GetD(sc_json, "scorecard")) IN
    IF cards = <<>> THEN s
    ELSE commit_unless_raised(
             ForEach(LAMBDA st, card, inn_idx : parse_card(st, mid, card, inn_idx),
                     s, cards, 1))

\* the INSERT ... ON DUPLICATE KEY UPDATE of upsert_player and its commit; s1
\* is the state the profile fetch left
player_insert(s1, player, team_id) ==
    LET pid  == OrI(OrI(GetI(player, "id"), GetI(player, "playerId")), 0)
        enrich == s1.ret
        name == OrS(OrS(OrS(OrS(GetS(player, "name"), GetS(enrich, "name")),
                            GetS(player, "fullName")), GetS(player, "batName")),
                    "Player " \o ToString(pid))
        role == OrS(OrS(GetS(player, "role"), GetS(player, "playingRole")),
                    GetS(enrich, "role"))
        bat  == OrS(OrS(GetS(player, "bat"), GetS(player, "battingStyle")), GetS(enrich, "bat"))
        bowl == OrS(OrS(GetS(player, "bowl"), GetS(player, "bowlingStyle")),
                    GetS(enrich, "bowl"))
        country == OrS(OrS(GetS(player, "intlTeam"), GetS(player, "teamName")),
                       GetS(enrich, "intlTeam"))
    IN  IF s1.exc /= "" THEN s1
        ELSE IF team_id /= None /\ team_id \notin DOMAIN s1.db.teams
             THEN Raise(s1, "IntegrityError")
        ELSE commit([s1 EXCEPT !.db.players = Put(@, pid,
                 [name |-> name, role |-> role, bat_style |-> bat, bowl_style |-> bowl,
                  team_id |-> team_id, country |-> country])])

\* upsert_player(conn, player, team_id) as its callers use it (enrich is
\* None): profile is the profile JSON of the player, stream the answers to
\* its fetch.  The function commits.
upsert_player(s, player, team_id, key, profile, stream) ==
    LET pid == OrI(OrI(GetI(player, "id"), GetI(player, "playerId")), 0) IN
    IF pid = Bad THEN Raise(s, "ValueError")
    ELSE IF pid = 0 THEN s
    ELSE player_insert(fetch(s, key, profile, stream), player, team_id)

(***************************************************************************)
(* run: the orchestration in progress.  ui is the button whose handler the *)
(* page script is running ("" when a routine is called on its own, "page"  *)
(* when no button was pressed), pc the position; teams, list, pages,       *)
(* cursor, queue, sid, matches, i, mid are the locals of the routines; n   *)
(* counts the runs that ended; shown is the st.success / st.error of the   *)
(* handler, err the exception it reports, uncaught the exception that left *)
(* the script.  refused, late_write and clean record what happened: a call *)
(* refused for the budget, a store write after it, and whether every       *)
(* fetch so far was answered with JSON at its first request.               *)
(***************************************************************************)
NoRun == [ui |-> "", pc |-> "idle", from_year |-> None, teams |-> <<>>, list |-> "",
          pages |-> 0, cursor |-> NoneStr, queue |-> <<>>,
          sid |-> None, matches |-> <<>>, i |-> 0, mid |-> None, n |-> 0,
          shown |-> "", err |-> "", uncaught |-> "",
          refused |-> FALSE, late_write |-> FALSE, clean |-> TRUE]

\* nothing observed yet
NoOut == [op |-> ""]

\* the other pages have not been opened
NoPage == [cache |-> <<>>, crud_info |-> <<>>]

\* init_schema(conn): CREATE TABLE IF NOT EXISTS for every table, then
\* conn.commit() on the connection just opened
init_schema(sch) == [sch EXCEPT !.tables = TRUE]
\* the rows of the store d after init_schema: a table that exists keeps its
\* rows, a table the statement creates is empty
create_table_replacing(sch, d) == EmptyDb
create_table_if_not_exists(sch, d) == IF sch.tables THEN d ELSE EmptyDb

\* create_views(conn): CREATE OR REPLACE VIEW for every analytics view
create_views(sch) == [sch EXCEPT !.views = TRUE]

\* a MySQL database without any table, and one an earlier run has set up
NoSchema == [tables |-> FALSE, views |-> FALSE]
Installed == create_views(init_schema(NoSchema))

\* the module globals when the page script starts
\* CricbuzzAPIClient.__init__, the clock at Epoch, no request made
Epoch == 60
NoClient == [last_api_call |-> 0, call_count |-> 0, now |-> Epoch, sent |-> <<>>]

InitGlobals ==
    /\ out = NoOut
    /\ client = NoClient
    /\ page = NoPage
    /\ API_CALLS = 0
    /\ api_trace = <<>>
    /\ last = NoCall
    /\ seen = [c \in Kinds |-> {}]
    /\ snap = <<>>

InitFetch ==
    /\ RAPIDAPI_KEY \in {"", "k"}
    /\ InitGlobals
    /\ schema = Installed
    /\ run = NoRun
    /\ db = EmptyDb
    /\ committed = EmptyDb
    /\ autoinc = [venues |-> 1]

\* One call of api_get from any caller.
ApiGet ==
    \E stream \in Streams :
        LET r == api_get(API_CALLS, api_trace, RAPIDAPI_KEY, stream) IN
        /\ API_CALLS' = r.calls
        /\ api_trace' = r.trace
        /\ last' = Outcome(r)
        /\ seen' = Saw(seen, r)
        /\ UNCHANGED <<RAPIDAPI_KEY, client, page, schema, storeVars, runVars>>

NextFetch == ApiGet

SpecFetch == InitFetch /\ [][NextFetch]_vars

(***************************************************************************)
(* What the API serves (the same at every request for the same URL)        *)
(***************************************************************************)
TeamIND == [teamId |-> 1, teamName |-> "India", teamSName |-> "IND"]
TeamAUS == [teamId |-> 2, teamName |-> "Australia", teamSName |-> "AUS"]
TeamPayloads == {TeamIND, TeamAUS}

PlayerPayloads == {[id |-> 1, name |-> "Kohli"], [id |-> 2]}
Profile(pid) ==
    IF pid = 1 THEN [name |-> "Virat Kohli", role |-> "Batsman", bat |-> "Right",
                     intlTeam |-> "India"]
    ELSE [name |-> "Steve Smith", role |-> "Batsman", bat |-> "Right", bowl |-> "Legbreak",
          intlTeam |-> "Australia"]

\* match 1 as the series detail lists it (no venue capacity, no result block),
\* match 1 as a later listing shows it (new status, no date), and match 2 with
\* its result, toss and venue capacity inline
Match1 ==
    [matchId |-> 1, team1 |-> TeamIND, team2 |-> TeamAUS,
     venueInfo |-> [ground |-> "Eden Gardens", city |-> "Kolkata"],
     startDate |-> "1704412800000", status |-> "India won by 5 wkts",
     matchFormat |-> "ODI", matchDesc |-> "1st ODI"]
Match1Later ==
    [matchId |-> 1, team1 |-> TeamIND, team2 |-> TeamAUS, status |-> "Match tied (D/L method)"]
Match2 ==
    [matchId |-> 2, team1 |-> TeamIND, team2 |-> TeamAUS,
     venueInfo |-> [ground |-> "MCG", city |-> "Melbourne", country |-> "Australia",
                    capacity |-> 100000],
     startDate |-> "2024-01-07T09:30:00", status |-> "Australia won by 21 runs",
     matchWinner |-> [teamId |-> 2],
     tossResults |-> [tossWinnerId |-> 2, decision |-> "Batting"],
     result |-> [resultMargin |-> " 21 ", resultType |-> "runs"],
     matchFormat |-> "ODI", matchDesc |-> "2nd ODI"]
\* a fixture whose teams are not known yet: the listing names no team
MatchTBC == [matchId |-> 3, status |-> "Upcoming", matchFormat |-> "ODI", matchDesc |-> "Final"]
MatchPayloads == {Match1, Match1Later, Match2}

MatchInfo(mid) ==
    IF mid = 1
    THEN [matchHeader |->
            [winningTeamId |-> 1,
             tossResults |-> [tossWinnerId |-> 1, decision |-> "Bowling"],
             result |-> [resultMargin |-> "5", resultType |-> "wickets"],
             status |-> "India won by 5 wkts"]]
    ELSE EmptyDict

\* the scorecard of match 1 in the flat shape (no partnership block) and the
\* scorecard of match 2 in the nested shape
Scorecard(mid) ==
    IF mid = 1
    THEN [scoreCard |-> <<
            [batteamid |-> 1,
             batsman |-> << [id |-> 1, runs |-> 45, balls |-> 30, fours |-> 4, sixes |-> 1,
                             outDesc |-> "Not Out"],
                            [id |-> 2, runs |-> 7, balls |-> 9, outDesc |-> "b Starc"] >>,
             bowler |-> << [id |-> 2, overs |-> 40, maidens |-> 0, runs |-> 31, wickets |-> 1,
                            economy |-> 775] >>,
             fielder |-> << [id |-> 2, catches |-> 1] >>] >>]
    ELSE [scoreCard |-> <<
            [batTeamDetails |->
                [teamId |-> 2,
                 batsmenData |-> << [key |-> "bat_1",
                                     val |-> [playerId |-> 2, runs |-> 60, balls |-> 48,
                                              strikeRate |-> 12500, isOut |-> TRUE]] >>],
             bowlTeamDetails |->
                [teamId |-> 1,
                 bowlersData |-> << [key |-> "bowl_1",
                                     val |-> [playerId |-> 1, o |-> 20, r |-> 15, w |-> 0]] >>],
             partnerships |-> << [player1Id |-> 2, player2Id |-> 1, runs |-> 33, balls |-> 40] >>,
             fieldingData |-> << [key |-> 1, val |-> [playerId |-> 1, catches |-> 2]] >>] >>]

MatchIds == {1, 2}

(***************************************************************************)
(* The upsert layer driven directly: the operations in any order on one    *)
(* connection.                                                             *)
(***************************************************************************)
\* how the server answers a fetch made inside a store operation
OpStreams ==
    { [i \in 1..StreamLen |-> k] : k \in {"json", "badbody"} }

MaxFacts == 3

Here == [db |-> db, committed |-> committed, autoinc |-> autoinc,
         calls |-> API_CALLS, trace |-> api_trace, last |-> last, exc |-> "", ret |-> None,
         refused |-> run.refused]

\* the state after an operation that ended in s
Becomes(s) ==
    /\ db' = s.db
    /\ committed' = s.committed
    /\ autoinc' = s.autoinc
    /\ API_CALLS' = s.calls
    /\ api_trace' = s.trace
    /\ last' = s.last

FactsBounded(s) ==
    /\ Len(s.db.batting_stats) <= MaxFacts
    /\ Len(s.db.bowling_stats) <= MaxFacts
    /\ Len(s.db.partnerships) <= MaxFacts
    /\ Len(s.db.fielding_stats) <= MaxFacts

OkStream == [i \in 1..StreamLen |-> "json"]

Blank == [db |-> EmptyDb, committed |-> EmptyDb, autoinc |-> [venues |-> 1],
          calls |-> 0, trace |-> <<>>, last |-> NoCall, exc |-> "", ret |-> None,
          refused |-> FALSE]

\* The store after an earlier bulk load brought in both teams and the players
\* pids (player p plays for team p), every fetch answered with JSON.
RECURSIVE with_players(_, _)
with_players(s, pids) ==
    IF pids = {} THEN s
    ELSE LET p == CHOOSE x \in pids : \A y \in pids : x <= y IN
         with_players(upsert_player(s, [id |-> p], p, "k", Profile(p), OkStream), pids \ {p})

ReferenceData(pids) ==
    with_players(commit(upsert_team(upsert_team(Blank, TeamIND), TeamAUS)), pids).db

\* a fresh run of the page script on a store that holds the reference data
InitStore ==
    /\ RAPIDAPI_KEY = "k"
    /\ InitGlobals
    /\ schema = Installed
    /\ run = NoRun
    /\ autoinc = [venues |-> 1]
    /\ \E pids \in {{1}, {1, 2}} :
          /\ db = ReferenceData(pids)
          /\ committed = ReferenceData(pids)

UpsertMatchBasic(m) ==
    /\ \E stream \in OpStreams :
          Becomes(upsert_match_basic(Here, m, None, RAPIDAPI_KEY, MatchInfo(m.matchId), stream))
    /\ UNCHANGED <<RAPIDAPI_KEY, client, page, schema, seen, runVars>>

ParseScorecard(mid) ==
    /\ \E s \in {parse_scorecard(Here, mid, Scorecard(mid))} :
          /\ FactsBounded(s)
          /\ Becomes(s)
    /\ UNCHANGED <<RAPIDAPI_KEY, client, page, schema, seen, runVars>>

NextStore ==
    \/ \E m \in MatchPayloads : UpsertMatchBasic(m)
    \/ \E mid \in MatchIds : ParseScorecard(mid)

SpecStore == InitStore /\ [][NextStore]_vars

\* upsert_match_basic alone: any sequence of calls on one connection
NextMatches == \E m \in MatchPayloads : UpsertMatchBasic(m)

SpecMatches == InitStore /\ [][NextMatches]_vars

(***************************************************************************)
(* get_or_create_venue driven directly: any sequence of calls on one       *)
(* connection, starting from an empty venues table.                        *)
(***************************************************************************)
VenueNames == {"", "Eden Gardens"}
\* <<city, country>>
VenuePlaces == {<<NoneStr, NoneStr>>, <<"Kolkata", NoneStr>>, <<"Kolkata", "India">>}
Capacities == {None, 40000, 50000, 60000}

GetOrCreateVenue(name, city, country, capacity) ==
    /\ \E s \in {get_or_create_venue(Here, name, city, country, capacity)} :
          /\ Becomes(s)
          /\ out' = [op |-> "get_or_create_venue", name |-> name, city |-> city,
                     country |-> country, capacity |-> capacity,
                     ret |-> s.ret, was |-> db.venues]
    /\ UNCHANGED <<RAPIDAPI_KEY, client, page, schema, seen, run, snap>>

InitVenue ==
    /\ RAPIDAPI_KEY = "k"
    /\ InitGlobals
    /\ schema = Installed
    /\ run = NoRun
    /\ db = EmptyDb
    /\ committed = EmptyDb
    /\ autoinc = [venues |-> 1]

NextVenue ==
    \E name \in VenueNames, place \in VenuePlaces, capacity \in Capacities :
        GetOrCreateVenue(name, place[1], place[2], capacity)

SpecVenue == InitVenue /\ [][NextVenue]_vars

(***************************************************************************)
(* load_series_matches_deep, called once per listed series on one          *)
(* connection in one run of the page script.  A call is three kinds of     *)
(* step: the series detail, then for each match its basic row and its      *)
(* scorecard.                                                              *)
(***************************************************************************)
\* how the server answers a fetch made by an orchestration routine
RunStreams ==
    { [i \in 1..StreamLen |-> k] : k \in {"json", "badbody", "h5xx"} }

MaxRuns == 2

SeriesIds == {10, 11, 12, 13}

\* series 10 lists its matches in matchDetails buckets, series 11 and 12 in a
\* flat list, series 13 has no match yet
SeriesDetail(sid) ==
    IF sid = 10
    THEN [seriesId |-> 10, seriesName |-> "Border-Gavaskar Trophy",
          matchDetails |-> << [matchDetailsMap |->
                                 [key |-> "Fri, 5 Jan",
                                  match |-> << [matchInfo |-> Match1],
                                               [matchInfo |-> Match2] >>]] >>]
    ELSE IF sid = 11
    THEN [id |-> 11, name |-> "Tri-Series", hostCountry |-> "Australia",
          matches |-> << [matchInfo |-> Match2] >>]
    ELSE IF sid = 13
    THEN [id |-> 13, name |-> "T20 Cup"]
    ELSE [id |-> 12, name |-> "Champions Cup",
          matches |-> << [matchInfo |-> MatchTBC], [matchInfo |-> Match2] >>]

\* m.get("matchInfo") or m, for every element of a list of match wrappers
unwrap(ms) == [i \in 1..Len(ms) |-> OrD(GetD(ms[i], "matchInfo"), ms[i])]

RECURSIVE series_matches(_)
series_matches(sms) ==
    IF sms = <<>> THEN <<>>
    ELSE unwrap(GetD(Head(sms), "matches")) \o series_matches(Tail(sms))

RECURSIVE bucket_matches(_)
bucket_matches(md) ==
    IF md = <<>> THEN <<>>
    ELSE series_matches(GetD(Head(md), "seriesMatches"))
         \o unwrap(BucketMatches(Head(md)))
         \o bucket_matches(Tail(md))

\* the matches a series detail lists
collect_matches(sdet) ==
    LET flat == GetD(sdet, "matches") IN
    IF flat /= <<>> THEN flat
    ELSE bucket_matches(OrD(GetD(sdet, "matchDetails"), GetD(sdet, "typeMatches")))

\* except Exception as e: st.error(...) of a button handler
handler_error(r, e) == [r EXCEPT !.pc = "tail", !.shown = "error", !.err = e]

\* load_all_series_and_matches: the listing loop has ended (break, or the
\* while condition failed); the archives follow the current series
next_list(r) ==
    IF r.list = "current"
    THEN [r EXCEPT !.pc = "page", !.list = "archives", !.pages = 0, !.cursor = NoneStr]
    ELSE [r EXCEPT !.pc = "views"]

\* `if not cursor: break` at the end of a page
after_page(r) == IF ~TruthyS(r.cursor) THEN next_list(r) ELSE [r EXCEPT !.pc = "page"]

\* `for sid in series_ids: load_series_matches_deep(conn, sid)`
next_series(r) ==
    IF r.queue /= <<>>
    THEN [r EXCEPT !.pc = "deep", !.sid = Head(r.queue), !.queue = Tail(r.queue)]
    ELSE after_page(r)

\* load_series_matches_deep returns to its caller
deep_returns(r) ==
    IF r.ui = "" THEN [r EXCEPT !.pc = "returned", !.n = @ + 1] ELSE next_series(r)

\* the routine has gone through match i
Advance(r) ==
    IF r.i + 1 > Len(r.matches) THEN deep_returns(r)
    ELSE [r EXCEPT !.pc = "basic", !.i = @ + 1]

\* the exception e leaves load_series_matches_deep
Propagate(r, e) ==
    IF r.ui = "" THEN [r EXCEPT !.pc = "raised", !.n = @ + 1, !.err = e]
    ELSE handler_error(r, e)

\* int(v) of a value that may not be a number
int_or_raise(s, v) == IF s.exc = "" /\ v = Bad THEN Raise(s, "ValueError") ELSE s

\* upsert_series(conn, sdet); conn.commit() for the series detail s1.ret
store_series(s1) ==
    IF s1.exc /= "" \/ s1.ret = EmptyDict THEN s1
    ELSE commit_unless_raised(upsert_series(s1, s1.ret))

\* extract_series_detail, the series row and the collection of the matches.
\* Called on its own the routine starts a run for any series; in a listing
\* loop it is called for the series at hand.
DeepStart(sid) ==
    /\ \/ run.ui = "" /\ run.pc \in {"idle", "returned", "raised"} /\ run.n < MaxRuns
       \/ run.ui /= "" /\ run.pc = "deep" /\ sid = run.sid
    /\ \E stream \in RunStreams :
       \E s3 \in {store_series(fetch([Here EXCEPT !.refused = (run.ui /= "" /\ @)],
                                     RAPIDAPI_KEY, SeriesDetail(sid), stream))} :
          LET r0 == [run EXCEPT !.sid = sid, !.matches = <<>>, !.i = 0, !.mid = None,
                                !.refused = s3.refused,
                                !.late_write = (run.ui /= "" /\ @),
                                !.clean = @ /\ stream = OkStream, !.err = ""]
          IN  /\ Becomes(s3)
              /\ run' = IF s3.exc /= "" THEN Propagate(r0, s3.exc)
                        ELSE IF s3.ret = EmptyDict THEN deep_returns(r0)
                        ELSE Advance([r0 EXCEPT !.matches = collect_matches(s3.ret)])
              /\ snap' = IF run.ui = "" /\ run.n >= 1
                         THEN << [sid |-> run.sid, db |-> db] >> ELSE snap
    /\ UNCHANGED <<RAPIDAPI_KEY, client, page, schema, seen, out>>

\* the match object of an entry of the collected list
match_object(m) == OrD(OrD(GetD(m, "matchInfo"), GetD(m, "match")), m)

\* int(mobj.get("matchId") or mobj.get("id") or 0), Bad when int() raises
match_id_of(mobj) == OrI(OrI(GetI(mobj, "matchId"), GetI(mobj, "id")), 0)

\* upsert_match_basic and the match id, for the match at position i
DeepBasic ==
    /\ run.pc = "basic"
    /\ \E stream \in RunStreams :
       \E mobj \in {match_object(run.matches[run.i])} :
       \E s2 \in {int_or_raise(upsert_match_basic(Here, mobj, run.sid, RAPIDAPI_KEY,
                                                  MatchInfo(match_id_of(mobj)), stream),
                               match_id_of(mobj))} :
          LET r1 == [run EXCEPT !.refused = s2.refused,
                                !.late_write = \/ @
                                               \/ run.refused /\ s2.db /= db
                                               \/ s2.refused /\ s2.db.matches /= db.matches,
                                !.clean = @ /\ stream = OkStream]
          IN  /\ Becomes(s2)
              /\ run' = IF s2.exc /= "" THEN Propagate(r1, s2.exc)
                        ELSE IF match_id_of(mobj) = 0 THEN Advance(r1)
                        ELSE [r1 EXCEPT !.pc = "scorecard", !.mid = match_id_of(mobj)]
    /\ UNCHANGED <<RAPIDAPI_KEY, client, page, schema, seen, snap, out>>

\* the try block around the scorecard: parse_scorecard and conn.commit() when
\* the fetch s1 brought a scorecard
try_scorecard(s1, mid) ==
    IF s1.exc = "" /\ s1.ret /= EmptyDict
    THEN commit_unless_raised(parse_scorecard(s1, mid, s1.ret))
    ELSE s1

\* except Exception: print(...); conn.rollback()
except_rollback(s) == IF s.exc /= "" THEN rollback(Try(s)) ELSE s

\* extract_scorecard and the try block, for the match at position i
DeepScorecard ==
    /\ run.pc = "scorecard"
    /\ \E stream \in RunStreams :
       \E s2 \in {try_scorecard(fetch(Here, RAPIDAPI_KEY, Scorecard(run.mid), stream),
                                run.mid)} :
          /\ Becomes(except_rollback(s2))
          /\ run' = Advance([run EXCEPT !.refused = s2.refused,
                                        !.late_write = @ \/ (run.refused /\ s2.db /= db),
                                        !.clean = @ /\ stream = OkStream])
          /\ out' = [op |-> "scorecard", mid |-> run.mid, exc |-> s2.exc]
    /\ UNCHANGED <<RAPIDAPI_KEY, client, page, schema, seen, snap>>

InitDeep ==
    /\ RAPIDAPI_KEY \in {"", "k"}
    /\ InitGlobals
    /\ schema = Installed
    /\ run = NoRun
    /\ autoinc = [venues |-> 1]
    /\ \E pids \in {{1}, {1, 2}} :
          /\ db = ReferenceData(pids)
          /\ committed = ReferenceData(pids)

NextDeep ==
    \/ \E sid \in SeriesIds : DeepStart(sid)
    \/ DeepBasic
    \/ DeepScorecard

SpecDeep == InitDeep /\ [][NextDeep]_vars

(***************************************************************************)
(* The page script run by Streamlit: each run starts the module globals    *)
(* afresh (API_CALLS = 0) while the session keeps api_trace, executes the  *)
(* handler of the button that was pressed, if any, and ends with the       *)
(* script's __main__ block.  This part has the Full Backfill button.       *)
(***************************************************************************)
max_pages == 2

\* how many times the script runs in one session
MaxScriptRuns == 1

\* the "From year" input of the sidebar
FromYears == {2000, 2020}

\* series_id of the __main__ block
DebugSeriesId == 10840

\* /teams/v1/international: a header entry without id, then the team
TeamsBody == [list |-> << [teamName |-> "Test Teams"], TeamIND >>]

\* the same list with a team whose id is not a number ahead of India
TeamsBodyMalformed == [list |-> << [teamId |-> Bad, teamName |-> "Net XI"], TeamIND >>]
TeamsBodies == {TeamsBody, TeamsBodyMalformed}

\* /teams/v1/{team_id}/players
PlayersBody(team_id) ==
    IF team_id = 1 THEN [player |-> << [name |-> "BATSMEN"], [id |-> 1, name |-> "Kohli"] >>]
    ELSE [players |-> << [id |-> 2] >>]

\* the series listings: the current one is a single page without a next
\* cursor, its second series without a start date; the archive answers every request, whatever its cursor, with the
\* same page and the same next cursor
Listing(list, cursor) ==
    IF list = "current"
    THEN [seriesMapProto |-> << [date |-> "JANUARY 2024",
                                 series |-> << [id |-> 11, name |-> "Tri-Series",
                                                startDt |-> "1704412800000"],
                                               [id |-> 13, name |-> "T20 Cup"] >>] >>]
    ELSE [series |-> << [id |-> 10, name |-> "Border-Gavaskar Trophy",
                         startDt |-> "2019-11-21"] >>,
          next |-> "page-2"]

\* SELECT team_id FROM teams
RECURSIVE sorted(_)
sorted(ids) ==
    IF ids = {} THEN <<>>
    ELSE LET lo == CHOOSE x \in ids : \A y \in ids : x <= y IN <<lo>> \o sorted(ids \ {lo})

\* the teams of the teams payload
teams_of(data) ==
    IF "list" \in DOMAIN data
    THEN [i \in 1..Len(data.list) |-> OrD(GetD(data.list[i], "team"), data.list[i])]
    ELSE GetD(data, "teams")

\* load_teams_and_players up to its first commit; s1 is the state the fetch left
store_teams(s1) ==
    IF s1.exc /= "" \/ s1.ret = EmptyDict THEN s1
    ELSE commit_unless_raised(
             ForEach(LAMBDA st, t, i : upsert_team(st, t), s1, teams_of(s1.ret), 1))

\* the body of the team loop of load_teams_and_players; pstream answers the
\* profile fetches of the team's players
store_players(s1, team_id, key, pstream) ==
    IF s1.exc /= "" \/ s1.ret = EmptyDict THEN s1
    ELSE commit_unless_raised(
             ForEach(LAMBDA st, p, i :
                         upsert_player(st, p, team_id, key,
                                       Profile(OrI(OrI(GetI(p, "id"), GetI(p, "playerId")), 0)),
                                       pstream),
                     s1, OrD(GetD(s1.ret, "player"), GetD(s1.ret, "players")), 1))

RECURSIVE bucket_series(_)
bucket_series(buckets) ==
    IF buckets = <<>> THEN <<>>
    ELSE GetD(Head(buckets), "series") \o bucket_series(Tail(buckets))

\* the series items of a listing page
items_of(pack) ==
    IF "seriesMapProto" \in DOMAIN pack THEN bucket_series(pack.seriesMapProto)
    ELSE GetD(pack, "series")

\* series_ids.append(sid) after upsert_series
append_sid(s, sid) == IF s.exc /= "" THEN s ELSE Return(s, Append(s.ret, sid))

\* one item of a listing page; ret collects series_ids
list_item_unfiltered(st, item, from_year) ==
    LET sid == OrI(OrI(GetI(item, "id"), GetI(item, "seriesId")), 0)
    IN  IF sid = Bad THEN Raise(st, "ValueError")
        ELSE IF sid = 0 THEN st
        ELSE append_sid(upsert_series(st, item), sid)
list_item(st, item, from_year) ==
    LET sid      == OrI(OrI(GetI(item, "id"), GetI(item, "seriesId")), 0)
        start_dt == _to_date(OrS(GetS(item, "startDt"), GetS(item, "startDate")))
    IN  IF sid = Bad THEN Raise(st, "ValueError")
        ELSE IF sid = 0 THEN st
        ELSE IF TruthyI(from_year) /\ TruthyS(start_dt)
                /\ int_of(SubSeq(start_dt, 1, 4)) < from_year
        THEN st
        ELSE append_sid(upsert_series(st, item), sid)

\* the items of a page and conn.commit(); s1 is the state the fetch left
store_listing(s1, from_year) ==
    IF s1.exc /= "" \/ s1.ret = EmptyDict THEN s1
    ELSE commit_unless_raised(
             ForEach(LAMBDA st, item, i : list_item(st, item, from_year),
                     Return(s1, <<>>), items_of(s1.ret), 1))

\* what a step of the run leaves in run
Noted(r, s, streams) ==
    [r EXCEPT !.refused = s.refused, !.clean = @ /\ streams = {OkStream}]

\* load_teams_and_players starts its team loop, or has ended
next_team(r) ==
    IF r.teams /= <<>> THEN [r EXCEPT !.pc = "players"]
    ELSE [r EXCEPT !.pc = "page", !.list = "current", !.pages = 0, !.cursor = NoneStr]

\* Streamlit runs the script: without a button, or with a button pressed
\* (Full Backfill, Refresh Recent Matches, Execute Query), whose handler opens
\* the connection (get_db_connection gives None when it cannot connect) and
\* calls init_schema before anything else
ScriptStart(button, from_year, connected) ==
    /\ run.ui /= ""
    /\ run.pc \in {"idle", "done"}
    /\ run.n < MaxScriptRuns
    /\ API_CALLS' = 0
    /\ committed' = IF button /= "page" /\ connected
                    THEN create_table_if_not_exists(schema, committed) ELSE committed
    /\ db' = committed'
    /\ schema' = IF button /= "page" /\ connected THEN init_schema(schema) ELSE schema
    /\ run' = LET r == [NoRun EXCEPT !.ui = button, !.n = run.n, !.clean = run.clean,
                                     !.from_year = from_year]
              IN  IF button = "page" THEN [r EXCEPT !.pc = "tail"]
                  ELSE IF ~connected THEN handler_error(r, "AttributeError")
                  ELSE IF button = "refresh" THEN [r EXCEPT !.pc = "recent"]
                  ELSE IF button = "query" THEN [r EXCEPT !.pc = "views"]
                  ELSE [r EXCEPT !.pc = "teams"]
    /\ out' = [op |-> "script", button |-> button, connected |-> connected, was |-> schema]
    /\ UNCHANGED <<RAPIDAPI_KEY, client, page, api_trace, last, seen, autoinc, snap>>

\* load_teams_and_players: extract_teams, the teams, the list of team ids
LoadTeams ==
    /\ run.pc = "teams"
    /\ \E stream \in RunStreams, body \in TeamsBodies :
       \E s2 \in {store_teams(fetch(Here, RAPIDAPI_KEY, body, stream))} :
          /\ Becomes(s2)
          /\ run' = IF s2.exc /= "" THEN handler_error(Noted(run, s2, {stream}), s2.exc)
                    ELSE IF s2.ret = EmptyDict
                    THEN next_team(Noted(run, s2, {stream}))
                    ELSE next_team([Noted(run, s2, {stream}) EXCEPT
                                       !.teams = sorted(DOMAIN s2.db.teams)])
          /\ out' = [op |-> "load_teams_and_players", exc |-> s2.exc,
                     got |-> (s2.ret /= EmptyDict),
                     malformed |-> (body = TeamsBodyMalformed)]
    /\ UNCHANGED <<RAPIDAPI_KEY, client, page, schema, seen, snap>>

\* load_teams_and_players: the players of the next team
LoadPlayers ==
    /\ run.pc = "players"
    /\ \E stream \in RunStreams, pstream \in RunStreams :
       \E s2 \in {store_players(fetch(Here, RAPIDAPI_KEY, PlayersBody(Head(run.teams)), stream),
                                Head(run.teams), RAPIDAPI_KEY, pstream)} :
          /\ Becomes(s2)
          /\ run' = IF s2.exc /= "" THEN handler_error(Noted(run, s2, {stream, pstream}), s2.exc)
                    ELSE next_team([Noted(run, s2, {stream, pstream}) EXCEPT !.teams = Tail(@)])
    /\ UNCHANGED <<RAPIDAPI_KEY, client, page, schema, seen, snap, out>>

\* `while pages < max_pages` of the paging loops
page_limit_never(pages, limit) == FALSE
page_limit_reached(pages, limit) == pages >= limit

\* load_all_series_and_matches: one turn of a listing loop up to its deep loads
ListPage ==
    /\ run.pc = "page"
    /\ IF page_limit_reached(run.pages, max_pages)
       THEN /\ run' = next_list(run)
            /\ UNCHANGED <<fetchVars, storeVars>>
       ELSE \E stream \in RunStreams :
            \E s1 \in {fetch(Here, RAPIDAPI_KEY, Listing(run.list, run.cursor), stream)} :
            \E s2 \in {store_listing(s1, run.from_year)} :
               /\ Becomes(s2)
               /\ UNCHANGED seen
               /\ run' = IF s2.exc /= "" THEN handler_error(Noted(run, s2, {stream}), s2.exc)
                         ELSE IF s1.ret = EmptyDict THEN next_list(Noted(run, s2, {stream}))
                         ELSE next_series([Noted(run, s2, {stream}) EXCEPT
                                  !.pages = @ + 1,
                                  !.queue = s2.ret,
                                  !.cursor = OrS(GetS(s1.ret, "next"), GetS(s1.ret, "cursor"))])
    /\ UNCHANGED <<RAPIDAPI_KEY, client, page, schema, snap, out>>

\* create_views (DDL and conn.commit()), then pd.read_sql for Execute Query,
\* conn.close(), st.success
CreateViews ==
    /\ run.pc = "views"
    /\ committed' = db
    /\ schema' = create_views(schema)
    /\ run' = [run EXCEPT !.pc = "tail", !.shown = "success"]
    /\ UNCHANGED <<RAPIDAPI_KEY, client, page, fetchVars, db, autoinc, snap, out>>

\* the __main__ block at the end of the script: extract_series_detail(10840)
\* outside any try
ScriptTail ==
    /\ run.pc = "tail"
    /\ \E stream \in RunStreams :
       \E s1 \in {fetch(Here, RAPIDAPI_KEY, SeriesDetail(DebugSeriesId), stream)} :
          /\ Becomes(s1)
          /\ run' = [Noted(run, s1, {stream}) EXCEPT !.pc = "done", !.n = @ + 1,
                                                    !.uncaught = s1.exc]
    /\ UNCHANGED <<RAPIDAPI_KEY, client, page, schema, seen, snap, out>>

\* the page opened on a fresh installation: no row in any table
InitBackfill ==
    /\ RAPIDAPI_KEY \in {"", "k"}
    /\ InitGlobals
    /\ schema = NoSchema
    /\ run = [NoRun EXCEPT !.ui = "page"]
    /\ db = EmptyDb
    /\ committed = EmptyDb
    /\ autoinc = [venues |-> 1]

NextBackfill ==
    \/ \E button \in {"page", "backfill"}, from_year \in FromYears, connected \in BOOLEAN :
          ScriptStart(button, from_year, connected)
    \/ LoadTeams
    \/ LoadPlayers
    \/ ListPage
    \/ \E sid \in SeriesIds : DeepStart(sid)
    \/ DeepBasic
    \/ DeepScorecard
    \/ CreateViews
    \/ ScriptTail

SpecBackfill == InitBackfill /\ [][NextBackfill]_vars

(***************************************************************************)
(* Claims about the fetch layer (checked under SpecFetch)                  *)
(***************************************************************************)

\* C4: once API_CALLS has reached MAX_CALLS no further request is issued, also
\* not by the retries of a call in progress, so API_CALLS never exceeds MAX_CALLS.
CallBudgetNeverExceeded == API_CALLS <= MAX_CALLS

\* C7: the result api_get returns for a call ended by HTTP 429 carries a tag
\* that it returns neither for an empty or non-JSON body, nor for exhausted
\* network retries, nor for a valid JSON body.
RateLimitTaggedDistinctly ==
    \A c \in {"badbody", "neterr", "json"} : seen["h429"] \cap seen[c] = {}

\* C8: after api_get has received a 429 it issues no further request for that
\* call: a 429 can only be the last response of a call.
NoRequestAfter429 ==
    \A i \in 1..(Len(last.reqs) - 1) : last.reqs[i] /= "h429"

\* C9: one call issues at most retries+1 requests, sleeps backoff*k before its
\* k-th retry, and when every attempt failed it returns None and does not raise.
RetryIsBoundedAndSoft ==
    LET n == Len(last.reqs) IN
    /\ n <= retries + 1
    /\ Len(last.sleeps) = (IF n = 0 THEN 0 ELSE n - 1)
    /\ \A k \in 1..Len(last.sleeps) : last.sleeps[k] = backoff * k
    /\ \A i \in 1..(n - 1) : last.reqs[i] \in FailKinds
    /\ (n > 0 /\ last.reqs[n] \in FailKinds) => (n = retries + 1 /\ last.result = "None")
    /\ n > 0 => last.result /= "RuntimeError"

RetriesExhaustedReached ==
    /\ Len(last.reqs) = retries + 1
    /\ \A i \in 1..Len(last.reqs) : last.reqs[i] = "neterr"
    /\ last.sleeps = [k \in 1..retries |-> backoff * k]
    /\ last.result = "None"

\* C10: a 2xx response with an empty or non-JSON body makes api_get return a
\* "no data" result whose tag it returns for no other failure (429, another
\* HTTP error status, exhausted network retries).
BadBodyTaggedDistinctly ==
    \A c \in FailKinds : seen["badbody"] \cap seen[c] = {}

\* C11: every request attempt of a call, the attempts that end in a connection
\* error or a timeout included, appends one entry to the trace log.
EveryAttemptTraced ==
    [][Len(api_trace') = Len(api_trace) + Len(last'.reqs)]_vars

(***************************************************************************)
(* Claims about the upsert layer (checked under SpecStore)                 *)
(***************************************************************************)
NoTwoRows(rows, Key(_)) ==
    \A i, j \in 1..Len(rows) : i /= j => Key(rows[i]) /= Key(rows[j])

\* C1: batting_stats and bowling_stats hold at most one row per (match_id,
\* player_id, innings_no) and fielding_stats at most one row per (match_id,
\* player_id), whatever scorecards were ingested and however often.
OneRowPerFactKey ==
    /\ NoTwoRows(db.batting_stats, LAMBDA r : <<r.match_id, r.player_id, r.innings_no>>)
    /\ NoTwoRows(db.bowling_stats, LAMBDA r : <<r.match_id, r.player_id, r.innings_no>>)
    /\ NoTwoRows(db.fielding_stats, LAMBDA r : <<r.match_id, r.player_id>>)

SuppliesDate(m) == {"matchDate", "startDate", "startTime"} \cap DOMAIN m /= {}

\* C3: when upsert_match_basic re-ingests a stored match with a payload that
\* changes victory_type and supplies no date (nor venue, nor format), the row
\* takes the new victory_type and keeps its match_date, venue_id and
\* match_format.
ReingestKeepsUnsuppliedColumns ==
    [][ \A m \in MatchPayloads :
          ( /\ UpsertMatchBasic(m)
            /\ m.matchId \in DOMAIN db.matches
            /\ ~SuppliesDate(m)
            /\ "venueInfo" \notin DOMAIN m
            /\ "matchFormat" \notin DOMAIN m
            /\ db'.matches[m.matchId].victory_type /= db.matches[m.matchId].victory_type )
          => /\ db'.matches[m.matchId].victory_type = _short(m.status, 50)
             /\ db'.matches[m.matchId].match_date = db.matches[m.matchId].match_date
             /\ db'.matches[m.matchId].venue_id = db.matches[m.matchId].venue_id
             /\ db'.matches[m.matchId].match_format = db.matches[m.matchId].match_format
      ]_vars

\* C14: upsert_match_basic for a match id leaves the matches table with the
\* ids it had and that id, and the one row of that id carries the description
\* and the victory type of this call: a stored match is updated, not added.
MatchIdKeepsOneRow ==
    [][ \A m \in MatchPayloads :
          UpsertMatchBasic(m) =>
              /\ DOMAIN db'.matches = DOMAIN db.matches \cup {m.matchId}
              /\ db'.matches[m.matchId].description = OrS(GetS(m, "matchDesc"), GetS(m, "status"))
              /\ "result" \notin DOMAIN m =>
                     db'.matches[m.matchId].victory_type = _short(GetS(m, "status"), 50)
      ]_vars

MatchReingested ==
    /\ \E v \in db.venues : v.name = "Eden Gardens"
    /\ DOMAIN db.matches = {1}
    /\ db.matches[1].description = "Match tied (D/L method)"
    /\ db.matches[1].victory_type = "Match tied (D/L method)"

(***************************************************************************)
(* Claims about the venues (checked under SpecVenue)                       *)
(***************************************************************************)

\* C12: a call of get_or_create_venue for a stored (name, city, country) leaves
\* the stored capacity as it was when the call's capacity is null or not
\* larger, and sets it to the call's capacity when that is larger.
VenueCapacityMonotone ==
    out.op = "get_or_create_venue" =>
        \A old \in out.was :
            (old.name = out.name /\ old.city = out.city /\ old.country = out.country) =>
                \E new \in db.venues :
                    /\ new.venue_id = old.venue_id
                    /\ new.capacity =
                          IF safe_capacity(out.capacity) /= None
                             /\ (old.capacity = None \/ safe_capacity(out.capacity) > old.capacity)
                          THEN safe_capacity(out.capacity)
                          ELSE old.capacity

\* C13: the venues table holds at most one row per (name, city, country), null
\* city or country included, and a call for a stored triple returns the id of
\* the stored row and adds no row.
OneVenuePerPlace ==
    /\ \A u, v \in db.venues :
          (u.name = v.name /\ u.city = v.city /\ u.country = v.country) => u = v
    /\ out.op = "get_or_create_venue" =>
          \A v \in out.was :
              (v.name = out.name /\ v.city = out.city /\ v.country = out.country) =>
                  /\ out.ret = v.venue_id
                  /\ {u.venue_id : u \in db.venues} = {u.venue_id : u \in out.was}

VenueWithNullPlaceFoundAgain ==
    /\ out.op = "get_or_create_venue"
    /\ out.city = NoneStr /\ out.country = NoneStr
    /\ \E v \in out.was :
          /\ v.name = out.name /\ v.city = NoneStr /\ v.country = NoneStr
          /\ out.ret = v.venue_id
    /\ Cardinality(db.venues) = Cardinality(out.was)
    /\ Cardinality(db.venues) >= 2

(***************************************************************************)
(* Claims about the deep series load (checked under SpecDeep)              *)
(***************************************************************************)

\* C2: when load_series_matches_deep has run again for the series of the
\* previous run and every fetch of both runs was answered with the same JSON,
\* every table holds the rows and the field values the previous run left.
CleanRerunChangesNothing ==
    ( /\ snap /= <<>>
      /\ run.pc = "returned"
      /\ run.clean
      /\ run.sid = snap[1].sid )
    => db = snap[1].db

\* C5: once api_get has refused a call of the run because the budget is used
\* up, the run has stopped with the error propagating to its caller and has
\* written nothing to the store after the refusal.
RunAbortsOnRefusal ==
    run.refused => (run.pc = "raised" /\ ~run.late_write)

\* C16: load_series_matches_deep is never left by an exception once it has
\* started on the matches of the series: a failure in a match is caught and
\* the routine goes on to the matches that remain.
MatchFailureIsCaught ==
    run.pc = "raised" => run.i = 0

IsPrefix(a, b) == Len(a) <= Len(b) /\ SubSeq(b, 1, Len(a)) = a

RollbackKeepsEarlierMatches ==
    [][ (DeepScorecard /\ out'.exc /= "") =>
            \A k \in DOMAIN db.matches :
                k /= out'.mid => (k \in DOMAIN db'.matches /\ db'.matches[k] = db.matches[k])
      ]_vars

(***************************************************************************)
(* Claims about a run of the page script (checked under SpecBackfill)      *)
(***************************************************************************)

\* C15: when the teams payload holds a team whose id is not a number, the team
\* loop of load_teams_and_players skips that team, the exception does not
\* leave the loop, and the other teams of the payload are stored.
MalformedTeamIsSkipped ==
    (out.op = "load_teams_and_players" /\ out.got /\ out.malformed) =>
        /\ out.exc = ""
        /\ TeamIND.teamId \in DOMAIN committed.teams

\* C6: with an absent or empty API key api_get raises before it issues a
\* request or sleeps for a retry, the request counter and the trace stay as
\* they were, and the Full Backfill handler stops at its first fetch with an
\* error shown, having stored nothing.
MissingKeyFailsFast ==
    RAPIDAPI_KEY = "" =>
        /\ API_CALLS = 0
        /\ api_trace = <<>>
        /\ last.reqs = <<>> /\ last.sleeps = <<>>
        /\ last.result /= "" => (last.result = "RuntimeError" /\ last.err = "key")
        /\ run.pc \in {"idle", "teams", "tail", "done"}
        /\ (run.ui = "backfill" /\ run.pc \in {"tail", "done"}) => run.shown = "error"
        /\ db = EmptyDb /\ committed = EmptyDb

MissingKeyStoppedBackfill ==
    /\ RAPIDAPI_KEY = ""
    /\ run.ui = "backfill"
    /\ run.pc = "tail"
    /\ run.shown = "error" /\ run.err = "RuntimeError"
    /\ last.result = "RuntimeError" /\ last.err = "key"

(***************************************************************************)
(* pages/2_Live_Matches.py: get_matches and what main shows                *)
(***************************************************************************)
\* the labels of the radio that the model selects
MatchTypes == {"Live", "Recent"}

\* bodies the matches endpoint can answer with, as response.json() reads them
\* (typeMatches flattened to the state of each match it lists)
JsonBodies ==
    {[typeMatches |-> <<"In Progress">>], [typeMatches |-> <<>>],
     [message |-> "Internal Server Error"]}

\* what requests.get can do: raise a RequestException, or answer with a status
\* and a body that is empty (""), not JSON ("html") or JSON
Responses ==
    {[raised |-> TRUE, status_code |-> None, content |-> "", json |-> <<>>],
     [raised |-> FALSE, status_code |-> 429, content |-> "html", json |-> <<>>]}
    \cup {[raised |-> FALSE, status_code |-> c, content |-> b, json |-> <<>>] :
             c \in {200, 500}, b \in {"", "html"}}
    \cup {[raised |-> FALSE, status_code |-> c, content |-> "json", json |-> j] :
             c \in {200, 500}, j \in JsonBodies}

\* no entry of st.cache_data for a match type
NotCached == [raised |-> FALSE, status_code |-> None, content |-> "", json |-> <<>>]

\* get_matches past its header check: the dict it returns for a response
get_matches(response) ==
    IF response.raised THEN [error |-> "request_error"]
    ELSE IF response.status_code = 429 THEN [error |-> "rate_limit", status_code |-> 429]
    ELSE IF response.content = ""
         THEN [error |-> "empty_response", status_code |-> response.status_code]
    ELSE IF response.content /= "json"
         THEN [error |-> "invalid_json", status_code |-> response.status_code]
    ELSE response.json

\* the filter of process_and_display_matches on the state of a match
is_listed(match_state, match_type) ==
    LET match_state_l == lower(match_state)
        done == contains(match_state_l, "complete") \/ contains(match_state_l, "finished")
    IN  IF lower(match_type) = "live" THEN ~(done \/ contains(match_state_l, "upcoming"))
        ELSE IF lower(match_type) = "recent" THEN done
        ELSE TRUE

\* process_and_display_matches: which element it renders
process_and_display_matches(matches_data, match_type) ==
    IF matches_data /= <<>> /\ "error" \in DOMAIN matches_data
    THEN IF matches_data.error = "rate_limit" THEN "st.error: API Rate Limit Exceeded"
         ELSE IF matches_data.error = "empty_response" THEN "st.info: There are no matches at the moment"
         ELSE IF matches_data.error = "invalid_json" THEN "st.error: API Error"
         ELSE "st.error: Error"
    ELSE IF matches_data = <<>> \/ "typeMatches" \notin DOMAIN matches_data
         THEN "st.info: There are no matches at the moment"
    ELSE IF \A i \in 1..Len(matches_data.typeMatches) :
                ~is_listed(matches_data.typeMatches[i], match_type)
         THEN IF lower(match_type) = "live" THEN "st.info: There are no matches at the moment"
              ELSE "st.warning: No matches found"
    ELSE "Available Matches"

\* main from "Load matches" on: the cached get_matches, then the display
load_matches(cache, match_type, response) ==
    LET used == IF cache[match_type] /= NotCached THEN cache[match_type] ELSE response
        matches_data == get_matches(used)
    IN  [cache |-> [cache EXCEPT ![match_type] = used],
         response |-> used,
         shown |-> IF matches_data /= <<>>
                   THEN process_and_display_matches(matches_data, match_type)
                   ELSE "st.info: There are no matches at the moment"]

\* one run of the Live Matches script; refresh is the click on the Refresh
\* button, which clears the cache before the rerun
LiveMatches(match_type, response, refresh) ==
    /\ IF RAPIDAPI_KEY = ""
       THEN /\ out' = [op |-> "live_matches", match_type |-> match_type, response |-> NotCached,
                       shown |-> "st.error: API configuration missing"]
            /\ UNCHANGED page
       ELSE \E r \in {load_matches(IF refresh THEN [t \in MatchTypes |-> NotCached] ELSE page.cache,
                                   match_type, response)} :
               /\ page' = [page EXCEPT !.cache = r.cache]
               /\ out' = [op |-> "live_matches", match_type |-> match_type,
                          response |-> r.response, shown |-> r.shown]
    /\ UNCHANGED <<RAPIDAPI_KEY, client, schema, fetchVars, storeVars, run, snap>>

\* st.cache_data(ttl=60): an entry expires
CacheExpires(match_type) ==
    /\ page.cache[match_type] /= NotCached
    /\ page' = [page EXCEPT !.cache[match_type] = NotCached]
    /\ UNCHANGED <<RAPIDAPI_KEY, client, schema, fetchVars, storeVars, runVars>>

(***************************************************************************)
(* utils/db_connection.py and pages/5_CRUD_Operations.py                   *)
(***************************************************************************)
\* the rows crud_info can hold when the page is opened
CrudTables == {<<>>, <<[id |-> 1, name |-> "Virat Kohli"]>>}
SearchTerms == {"", "Kohli", "Smith"}

\* the Python None execute_query returns, next to its fetched rows
QueryFailed == [ok |-> FALSE, rows |-> <<>>]

\* execute_query with fetch=True: None when no connection could be opened
\* or the statement raised a mysql Error, else the rows
execute_query(connected, accepted, rows) ==
    IF ~connected THEN QueryFailed
    ELSE IF ~accepted THEN QueryFailed
    ELSE [ok |-> TRUE, rows |-> rows]

\* the connection execute_query obtained, at the moment it returns: "none" when
\* get_db_connection gave None, "closed" after connection.close(), "open" when
\* the except branch returned
connection_after(connected, accepted) ==
    IF ~connected THEN "none"
    ELSE IF ~accepted THEN "open"
    ELSE "closed"

\* truth value of a result in "if players:"
truthy(result) == result.ok /\ result.rows /= <<>>

\* the WHERE name ILIKE %term% of read_players
name_matches(rows, search_term) ==
    IF search_term = "" THEN rows
    ELSE SelectSeq(rows, LAMBDA r : contains(lower(r.name), lower(search_term)))

\* read_players: which element it renders for the result of its query
read_players(result) ==
    IF truthy(result) THEN "st.success: Found players"
    ELSE "st.warning: No players found with the given name."

\* update_player up to its form: which element it renders for the player list
update_player(result) ==
    IF ~truthy(result) THEN "st.warning: No players available to update."
    ELSE "Select Player to Update"

ReadPlayers(connected, accepted, search_term) ==
    /\ \E result \in {execute_query(connected, accepted, name_matches(page.crud_info, search_term))} :
          out' = [op |-> "read_players", search_term |-> search_term, result |-> result,
                  shown |-> read_players(result),
                  conn |-> connection_after(connected, accepted)]
    /\ UNCHANGED <<RAPIDAPI_KEY, client, page, schema, fetchVars, storeVars, run, snap>>

UpdatePlayer(connected, accepted) ==
    /\ \E result \in {execute_query(connected, accepted, page.crud_info)} :
          out' = [op |-> "update_player", result |-> result, shown |-> update_player(result),
                  conn |-> connection_after(connected, accepted)]
    /\ UNCHANGED <<RAPIDAPI_KEY, client, page, schema, fetchVars, storeVars, run, snap>>

InitPages ==
    /\ client = NoClient
    /\ RAPIDAPI_KEY \in {"", "k"}
    /\ out = NoOut
    /\ \E rows \in CrudTables :
          page = [cache |-> [t \in MatchTypes |-> NotCached], crud_info |-> rows]
    /\ schema = NoSchema
    /\ API_CALLS = 0
    /\ api_trace = <<>>
    /\ last = NoCall
    /\ seen = [c \in Kinds |-> {}]
    /\ run = NoRun
    /\ snap = <<>>
    /\ db = EmptyDb
    /\ committed = EmptyDb
    /\ autoinc = [venues |-> 1]

NextPages ==
    \/ \E match_type \in MatchTypes, response \in Responses, refresh \in BOOLEAN :
          LiveMatches(match_type, response, refresh)
    \/ \E match_type \in MatchTypes : CacheExpires(match_type)
    \/ \E connected \in BOOLEAN, accepted \in BOOLEAN, search_term \in SearchTerms :
          ReadPlayers(connected, accepted, search_term)
    \/ \E connected \in BOOLEAN, accepted \in BOOLEAN : UpdatePlayer(connected, accepted)

SpecPages == InitPages /\ [][NextPages]_vars

\* C18 (SpecPages): the Live Matches page keeps three outcomes apart: a rate
\* limit is shown as the rate-limit error, any other API failure (request
\* error, HTTP error status, body that is not JSON) as an error, and only a
\* successful fetch is shown as the non-error "no matches" message.
ApiFailure(response) ==
    \/ response.raised
    \/ response.status_code \notin {200, 429}
    \/ response.status_code = 200 /\ response.content = "html"

LiveOutcomesDistinguished ==
    out.op = "live_matches" /\ out.response /= NotCached =>
        /\ (~out.response.raised /\ out.response.status_code = 429)
              => out.shown = "st.error: API Rate Limit Exceeded"
        /\ ApiFailure(out.response)
              => out.shown \in {"st.error: API Error", "st.error: Error"}
        /\ out.shown = "st.info: There are no matches at the moment"
              => (~out.response.raised /\ out.response.status_code = 200)

\* C19 (SpecPages): when the data-access helper returns its failure value, the
\* CRUD page shows an error, never the message it shows for an empty result.
QueryFailureShownAsError ==
    (out.op \in {"read_players", "update_player"} /\ ~out.result.ok) =>
        out.shown \notin {read_players([ok |-> TRUE, rows |-> <<>>]),
                          update_player([ok |-> TRUE, rows |-> <<>>])}

(***************************************************************************)
(* upsert_player driven directly, as load_teams_and_players calls it       *)
(***************************************************************************)
\* player entries of a squad payload: a header row, entries with little
\* inline data, and one whose inline data names role, styles and country
PlayerEntries ==
    {[name |-> "BATSMEN"], [id |-> 1, name |-> "Kohli"], [id |-> 2],
     [id |-> 1, name |-> "Virat Kohli", role |-> "Batsman", bat |-> "Right-hand bat",
      bowl |-> "Right-arm medium", intlTeam |-> "India"]}

UpsertPlayer(player, team_id) ==
    /\ \E stream \in OpStreams :
       \E s \in {upsert_player(Here, player, team_id, RAPIDAPI_KEY,
                               Profile(OrI(OrI(GetI(player, "id"), GetI(player, "playerId")), 0)),
                               stream)} :
          /\ Becomes(s)
          /\ out' = [op |-> "upsert_player", player |-> player, exc |-> s.exc,
                     requests |-> s.calls - API_CALLS]
    /\ UNCHANGED <<RAPIDAPI_KEY, client, page, schema, seen, run, snap>>

InitPlayers ==
    /\ RAPIDAPI_KEY = "k"
    /\ InitGlobals
    /\ schema = Installed
    /\ run = NoRun
    /\ autoinc = [venues |-> 1]
    /\ db = ReferenceData({})
    /\ committed = ReferenceData({})

NextPlayers ==
    \E player \in PlayerEntries, team_id \in DOMAIN db.teams : UpsertPlayer(player, team_id)

SpecPlayers == InitPlayers /\ [][NextPlayers]_vars

\* the inline data of a player entry names role, both styles and country
InlineComplete(player) ==
    /\ OrS(GetS(player, "role"), GetS(player, "playingRole")) /= NoneStr
    /\ OrS(GetS(player, "bat"), GetS(player, "battingStyle")) /= NoneStr
    /\ OrS(GetS(player, "bowl"), GetS(player, "bowlingStyle")) /= NoneStr
    /\ OrS(GetS(player, "intlTeam"), GetS(player, "teamName")) /= NoneStr

\* C21 (SpecPlayers): a player upsert whose inline data supplies role, batting
\* style, bowling style and country issues no profile request.
ProfileFetchedOnlyWhenNeeded ==
    (out.op = "upsert_player" /\ InlineComplete(out.player)) => out.requests = 0

(***************************************************************************)
(* upsert_match_basic and its match-center enrichment, driven directly     *)
(***************************************************************************)
LongStatus == "Match abandoned without a ball bowled because of persistent rain"

\* list payloads: everything inline (Match2), a winner id of 0 and no toss,
\* no status at all, and a status of 64 characters
MatchNoWinner ==
    [matchId |-> 1, team1 |-> TeamIND, team2 |-> TeamAUS, status |-> "No result",
     matchWinner |-> [teamId |-> 0]]
MatchBare == [matchId |-> 2, team1 |-> TeamIND, team2 |-> TeamAUS]
MatchLong == [matchId |-> 2, team1 |-> TeamIND, team2 |-> TeamAUS, status |-> LongStatus]
ListedMatches == {Match2, MatchNoWinner, MatchBare, MatchLong}

\* what /mcenter/v1/{id} can serve for them
McenterBodies == {MatchInfo(1), [matchHeader |-> [status |-> LongStatus]]}

EnrichMatch(m, mc) ==
    /\ \E stream \in OpStreams :
       \E s \in {upsert_match_basic(Here, m, None, RAPIDAPI_KEY, mc, stream)} :
          /\ Becomes(s)
          /\ out' = [op |-> "upsert_match_basic", m |-> m, mc |-> mc, exc |-> s.exc,
                     fetched |-> (s.calls > API_CALLS \/ s.refused),
                     answered |-> (s.calls > API_CALLS /\ s.last.result = "json"),
                     row |-> GetD(s.db.matches, m.matchId)]
    /\ UNCHANGED <<RAPIDAPI_KEY, client, page, schema, seen, run, snap>>

NextEnrich == \E m \in ListedMatches, mc \in McenterBodies : EnrichMatch(m, mc)

SpecEnrich == InitStore /\ [][NextEnrich]_vars

\* the five result fields as the list payload of the observed call gives them
Listed == basic_fields(out.m)

\* C22 (SpecEnrich): upsert_match_basic calls the match-center fetch exactly
\* when one of winner, toss winner, toss decision, win margin and victory
\* type is null after the list payload was read; a field the list payload
\* supplied is stored as supplied, never replaced by the match-center value;
\* the stored victory_type has at most 50 characters on both paths.
McenterOnlyFillsNulls ==
    (out.op = "upsert_match_basic" /\ out.exc = "") =>
        /\ out.fetched <=>
              \/ Listed.winner_id = None
              \/ Listed.toss_winner_id = None
              \/ Listed.toss_decision = NoneStr
              \/ Listed.win_margin = NoneStr
              \/ Listed.victory_type = NoneStr
        /\ Listed.winner_id /= None => out.row.winner_id = Listed.winner_id
        /\ Listed.toss_winner_id /= None => out.row.toss_winner_id = Listed.toss_winner_id
        /\ Listed.toss_decision /= NoneStr => out.row.toss_decision = Listed.toss_decision
        /\ Listed.win_margin /= NoneStr => out.row.win_margin = coerce_margin(Listed.win_margin)
        /\ Listed.victory_type /= NoneStr => out.row.victory_type = Listed.victory_type
        /\ out.row.victory_type = NoneStr \/ Len(out.row.victory_type) <= 50

(***************************************************************************)
(* incremental_refresh and the page script with all of its buttons         *)
(***************************************************************************)
RefreshMaxPages == 2    \* max_pages=5 of the Refresh handler, scaled down

\* /matches/v1/recent: a page that lists match 1 of series 10 and ends the
\* listing, and a page that lists the series without a match and answers
\* every request, whatever its cursor, with the same next cursor
RecentPages ==
    {[typeMatches |-> << [seriesMatches |->
          << [seriesId |-> 10, seriesName |-> "Border-Gavaskar Trophy",
              matches |-> << [matchInfo |-> Match1Later] >>] >>] >>],
     [typeMatches |-> << [seriesMatches |->
          << [seriesId |-> 10, seriesName |-> "Border-Gavaskar Trophy"] >>] >>,
      next |-> "page-2"]}

\* incremental_refresh: one match of a series block; the scorecard fetch is
\* outside the try, parse_scorecard and the commit inside
refresh_match(st, mwrap, sid, key, mstream) ==
    LET m   == OrD(GetD(mwrap, "matchInfo"), mwrap)
        mid == OrI(GetI(m, "matchId"), 0)
        s1  == int_or_raise(upsert_match_basic(st, m, IF TruthyI(sid) THEN sid ELSE None, key,
                                               MatchInfo(match_id_of(m)), mstream), mid)
    IN  IF s1.exc /= "" \/ mid = 0 THEN s1
        ELSE LET sc == fetch(s1, key, Scorecard(mid), mstream) IN
             IF sc.exc /= "" THEN sc ELSE except_rollback(try_scorecard(sc, mid))

\* incremental_refresh: one series block of the page
refresh_series(st, sm, key, mstream) ==
    LET sid == OrI(GetI(sm, "seriesId"), 0) IN
    IF sid = Bad THEN Raise(st, "ValueError")
    ELSE ForEach(LAMBDA s2, mwrap, j : refresh_match(s2, mwrap, sid, key, mstream),
                 IF sid = 0 THEN st
                 ELSE upsert_series(st, [seriesId |-> sid,
                                         seriesName |-> GetS(sm, "seriesName")]),
                 GetD(sm, "matches"), 1)

\* incremental_refresh: the body of the while loop for the page data
refresh_page(s1, data, key, mstream) ==
    IF s1.exc /= "" \/ data = EmptyDict THEN s1
    ELSE ForEach(LAMBDA st, t, i :
                     ForEach(LAMBDA s2, sm, j : refresh_series(s2, sm, key, mstream),
                             st, GetD(t, "seriesMatches"), 1),
                 s1, GetD(data, "typeMatches"), 1)

\* incremental_refresh: one turn of the while loop
RefreshPage ==
    /\ run.pc = "recent"
    /\ IF page_limit_reached(run.pages, RefreshMaxPages)
       THEN /\ run' = [run EXCEPT !.pc = "views"]
            /\ UNCHANGED <<fetchVars, storeVars, out>>
       ELSE \E pack \in RecentPages, stream \in RunStreams, mstream \in RunStreams :
            \E s1 \in {fetch(Here, RAPIDAPI_KEY, pack, stream)} :
            \E s2 \in {refresh_page(s1, s1.ret, RAPIDAPI_KEY, mstream)} :
               /\ Becomes(s2)
               /\ UNCHANGED seen
               /\ out' = [op |-> "incremental_refresh", exc |-> s2.exc, got |-> s1.ret,
                          was |-> db.series]
               /\ run' = IF s2.exc /= "" THEN handler_error(Noted(run, s2, {stream, mstream}), s2.exc)
                         ELSE IF s1.ret = EmptyDict
                         THEN [Noted(run, s2, {stream}) EXCEPT !.pc = "views"]
                         ELSE [Noted(run, s2, {stream, mstream}) EXCEPT
                                  !.pages = @ + 1,
                                  !.cursor = OrS(GetS(s1.ret, "next"), GetS(s1.ret, "cursor")),
                                  !.pc = IF TruthyS(OrS(GetS(s1.ret, "next"), GetS(s1.ret, "cursor")))
                                         THEN "recent" ELSE "views"]
    /\ UNCHANGED <<RAPIDAPI_KEY, client, page, schema, snap>>

\* the store an earlier backfill left: series 10 as its deep load stored it
Loaded ==
    commit(upsert_series(Blank, [seriesStartDt |-> "2019-11-21", seriesEndDt |-> "2020-01-19"]
                                @@ SeriesDetail(10))).db

\* the page opened on a fresh installation, or on a store an earlier run filled
InitScript ==
    /\ RAPIDAPI_KEY = "k"
    /\ InitGlobals
    /\ run = [NoRun EXCEPT !.ui = "page"]
    /\ autoinc = [venues |-> 1]
    /\ \E installed \in BOOLEAN :
          /\ schema = IF installed THEN Installed ELSE NoSchema
          /\ db = IF installed THEN Loaded ELSE EmptyDb
          /\ committed = db

NextScript ==
    \/ NextBackfill
    \/ \E button \in {"refresh", "query"}, connected \in BOOLEAN :
          ScriptStart(button, None, connected)
    \/ RefreshPage

SpecScript == InitScript /\ [][NextScript]_vars

\* the ceiling of the paging loop the run is in
PageCeiling == IF run.ui = "refresh" THEN RefreshMaxPages ELSE max_pages

\* how far a run of a button handler has come: the routine it is in, the
\* pages its loop has counted, the series and teams still queued, and the
\* position inside the deep load of a series
Progress(r) ==
    LET routine == IF r.pc = "teams" THEN 0
                   ELSE IF r.pc = "players" THEN 1
                   ELSE IF r.pc \in {"page", "deep", "basic", "scorecard"}
                        THEN (IF r.list = "current" THEN 2 ELSE 3)
                   ELSE IF r.pc = "recent" THEN 3
                   ELSE IF r.pc = "views" THEN 4
                   ELSE IF r.pc = "tail" THEN 5
                   ELSE 6
        inside  == IF r.pc = "deep" THEN 0
                   ELSE IF r.pc = "basic" THEN 2 * r.i
                   ELSE IF r.pc = "scorecard" THEN 2 * r.i + 1
                   ELSE 99
    IN  routine * 1000000 + r.pages * 10000 + (99 - Len(r.queue) - Len(r.teams)) * 100 + inside

\* C23 (SpecScript): the paging loops of load_all_series_and_matches (current
\* and archived listing) and of incremental_refresh terminate: a loop counts
\* at most max_pages pages, it comes back to its head only after a page that
\* brought data and a next cursor, and every step of a handler takes the run
\* strictly forward, also when the API answers every request with the same
\* cursor.
PagingTerminates ==
    /\ [](run.pages <= PageCeiling)
    /\ []((run.pc \in {"page", "recent"} /\ run.pages > 0) => TruthyS(run.cursor))
    /\ [][(run.pc \in {"page", "recent"} /\ run'.pc = run.pc /\ run'.list = run.list)
              => (run'.pages = run.pages + 1 /\ last'.result = "json")]_vars
    /\ [][(run.pc \notin {"idle", "done"} /\ run' /= run)
              => Progress(run') > Progress(run)]_vars

\* the archive loop ended at its ceiling while the API still named a next page
ArchiveStoppedAtCeiling ==
    /\ run.ui = "backfill"
    /\ run.list = "archives"
    /\ run.pc = "views"
    /\ run.pages = max_pages
    /\ TruthyS(run.cursor)

\* the series items the two listings serve
ListedSeries == items_of(Listing("current", NoneStr)) \o items_of(Listing("archives", NoneStr))

\* the start date of a listed series as the page gives it (NoneStr: unknown)
StartDate(item) == _to_date(OrS(GetS(item, "startDt"), GetS(item, "startDate")))

\* the series is queued for its deep load, or in it
InDeepLoad(sid) ==
    \/ \E k \in 1..Len(run.queue) : run.queue[k] = sid
    \/ run.pc \in {"deep", "basic", "scorecard"} /\ run.sid = sid

\* the listed series has a known start date in a year before from_year
TooOld(item, from_year) ==
    /\ StartDate(item) /= NoneStr
    /\ int_of(SubSeq(StartDate(item), 1, 4)) < from_year

\* C24 (SpecBackfill): in discovery paging with a from_year, a series whose
\* known start date lies in a year before from_year is neither upserted (no
\* step of the backfill adds or changes its row) nor deep-loaded, and a series whose start date is unknown or not earlier is
\* upserted and queued by the page that lists it.
YearFloorFilter ==
    /\ [](run.ui = "backfill" =>
            \A k \in 1..Len(ListedSeries) :
               TooOld(ListedSeries[k], run.from_year) => ~InDeepLoad(ListedSeries[k].id))
    /\ [][(run.ui = "backfill" /\ run.pc \notin {"idle", "done"}) =>
            \A k \in 1..Len(ListedSeries) :
               TooOld(ListedSeries[k], run.from_year) =>
                  LET sid == ListedSeries[k].id IN
                  IF sid \in DOMAIN db.series
                  THEN sid \in DOMAIN db'.series /\ db'.series[sid] = db.series[sid]
                  ELSE sid \notin DOMAIN db'.series]_vars
    /\ [][(ListPage /\ API_CALLS' > API_CALLS /\ last'.result = "json" /\ run'.err = "")
            => \A item \in {x \in {items_of(Listing(run.list, run.cursor))[k] :
                                    k \in 1..Len(items_of(Listing(run.list, run.cursor)))} :
                               \/ StartDate(x) = NoneStr
                               \/ int_of(SubSeq(StartDate(x), 1, 4)) >= run.from_year} :
                  /\ item.id \in DOMAIN db'.series
                  /\ \/ \E k \in 1..Len(run'.queue) : run'.queue[k] = item.id
                     \/ run'.pc = "deep" /\ run'.sid = item.id]_vars

\* a backfill from 2020 has gone through an archive page: the series of 2019
\* is not in the store, the series without a start date is
OldSeriesSkipped ==
    /\ run.ui = "backfill"
    /\ run.from_year = 2020
    /\ run.list = "archives"
    /\ run.pages >= 1
    /\ 10 \notin DOMAIN db.series
    /\ 13 \in DOMAIN db.series

(***************************************************************************)
(* derive_partnerships_from_batsmen applied to the batting lists of a      *)
(* scorecard that has no partnership block.                                *)
(***************************************************************************)
MaxBatsmen == 4

BattingEntries ==
    { [id |-> 1, runs |-> 30, balls |-> 40], [id |-> 2, runs |-> 20, balls |-> 30],
      [id |-> 3, runs |-> 10, balls |-> 20], [id |-> 4, runs |-> 5, balls |-> 10],
      [id |-> 5] }

BattingLists == UNION { [1..n -> BattingEntries] : n \in 0..MaxBatsmen }

InitDerive ==
    /\ client = NoClient
    /\ RAPIDAPI_KEY = "k"
    /\ \E batsmen \in BattingLists : out = [op |-> "scorecard", batsmen |-> batsmen]
    /\ page = NoPage
    /\ API_CALLS = 0
    /\ api_trace = <<>>
    /\ last = NoCall
    /\ seen = [c \in Kinds |-> {}]
    /\ snap = <<>>
    /\ schema = Installed
    /\ run = NoRun
    /\ autoinc = [venues |-> 1]
    /\ db = EmptyDb
    /\ committed = EmptyDb

DerivePartnerships(batsmen) ==
    /\ out = [op |-> "scorecard", batsmen |-> batsmen]
    /\ out' = [op |-> "derive_partnerships_from_batsmen", batsmen |-> batsmen,
               ret |-> derive_partnerships_from_batsmen(batsmen)]
    /\ UNCHANGED <<RAPIDAPI_KEY, client, page, schema, fetchVars, storeVars, run, snap>>

NextDerive == \E batsmen \in BattingLists : DerivePartnerships(batsmen)

SpecDerive == InitDerive /\ [][NextDerive]_vars

\* runs and balls of entry i of the batting list the last call was given
RunsOf(i) == OrI(GetI(out.batsmen[i], "runs"), 0)
BallsOf(i) == OrI(GetI(out.batsmen[i], "balls"), 0)

\* C25: a batting list of n entries gives n-1 partnerships (none for n < 2); the
\* i-th pairs entry i with entry i+1; the first holds the runs and balls of both
\* its members, each later one only those of the batsman it adds.
NeighboursPaired ==
    out.op = "derive_partnerships_from_batsmen" =>
        LET n == Len(out.batsmen)
            parts == out.ret.parts
        IN  /\ out.ret.exc = ""
            /\ Len(parts) = (IF n < 2 THEN 0 ELSE n - 1)
            /\ \A i \in 1..Len(parts) :
                  /\ parts[i].player1Id = GetI(out.batsmen[i], "id")
                  /\ parts[i].player2Id = GetI(out.batsmen[i + 1], "id")
                  /\ parts[i].runs = (IF i = 1 THEN RunsOf(1) + RunsOf(2) ELSE RunsOf(i + 1))
                  /\ parts[i].balls = (IF i = 1 THEN BallsOf(1) + BallsOf(2)
                                       ELSE BallsOf(i + 1))

FourBatsmenDerived ==
    /\ out.op = "derive_partnerships_from_batsmen"
    /\ out.batsmen = << [id |-> 1, runs |-> 30, balls |-> 40],
                        [id |-> 2, runs |-> 20, balls |-> 30],
                        [id |-> 3, runs |-> 10, balls |-> 20],
                        [id |-> 4, runs |-> 5, balls |-> 10] >>
    /\ out.ret.parts = << [player1Id |-> 1, player2Id |-> 2, runs |-> 50, balls |-> 70],
                          [player1Id |-> 2, player2Id |-> 3, runs |-> 10, balls |-> 20],
                          [player1Id |-> 3, player2Id |-> 4, runs |-> 5, balls |-> 10] >>

(***************************************************************************)
(* insert_batting_score applied to one batting entry of match 1, on a      *)
(* store that holds the match and its players.                             *)
(***************************************************************************)
\* the strike-rate field of an entry, in hundredths: absent, "150.0" under each
\* of two of its keys, the number 0, and a text float() cannot parse
StrikeRateFields ==
    { EmptyDict, [strkrate |-> 15000], [strikeRate |-> 5714], [strikeRate |-> 0],
      [sr |-> Bad] }

BattingScores ==
    { [id |-> 1, runs |-> r, balls |-> b] @@ f :
         r \in {0, 7, 45, 50}, b \in {0, 9, 30}, f \in StrikeRateFields }

InitBatting ==
    /\ client = NoClient
    /\ RAPIDAPI_KEY = "k"
    /\ \E b \in BattingScores : out = [op |-> "scorecard", b |-> b]
    /\ page = NoPage
    /\ API_CALLS = 0
    /\ api_trace = <<>>
    /\ last = NoCall
    /\ seen = [c \in Kinds |-> {}]
    /\ snap = <<>>
    /\ schema = Installed
    /\ run = NoRun
    /\ autoinc = [venues |-> 1]
    /\ \E d \in {commit(upsert_match_basic(
                     [Blank EXCEPT !.db = ReferenceData({1}),
                                   !.committed = ReferenceData({1})],
                     Match1, None, "k", MatchInfo(1), OkStream)).db} :
          /\ db = d
          /\ committed = d

InsertBattingScore(b) ==
    /\ out = [op |-> "scorecard", b |-> b]
    /\ \E s \in {insert_batting_score(Here, 1, 1, 1, b, None)} :
          /\ Becomes(s)
          /\ out' = [op |-> "insert_batting_score", b |-> b, exc |-> s.exc,
                     rows |-> s.db.batting_stats]
    /\ UNCHANGED <<RAPIDAPI_KEY, client, page, schema, seen, run, snap>>

NextBatting == \E b \in BattingScores : InsertBattingScore(b)

SpecBatting == InitBatting /\ [][NextBatting]_vars

\* the strike-rate value an entry supplies, None when it has no such field
Supplied(b) ==
    IF "strkrate" \in DOMAIN b THEN b.strkrate
    ELSE IF "strikeRate" \in DOMAIN b THEN b.strikeRate
    ELSE IF "sr" \in DOMAIN b THEN b.sr ELSE None

\* v hundredths is runs / balls * 100 rounded to two decimals
IsRounded(v, runs, balls) ==
    /\ 2 * (v * balls - runs * 10000) <= balls
    /\ 2 * (runs * 10000 - v * balls) <= balls

\* C26: with no strike-rate field the stored rate is runs / balls * 100 rounded
\* to two decimals when balls > 0 and null when balls = 0; a supplied parseable
\* rate is stored as given.
StrikeRateStored ==
    out.op = "insert_batting_score" =>
        /\ out.exc = ""
        /\ Len(out.rows) = 1
        /\ LET b == out.b
               stored == out.rows[1].strike_rate
           IN  IF Supplied(b) = None
               THEN IF b.balls > 0 THEN IsRounded(stored, b.runs, b.balls)
                    ELSE stored = None
               ELSE Supplied(b) /= Bad => stored = Supplied(b)

(***************************************************************************)
(* Claims about the schema (checked under SpecScript)                      *)
(***************************************************************************)

\* a step of a button handler that runs init_schema on its new connection
InitSchemaStep ==
    /\ run.pc \in {"idle", "done"}
    /\ run'.pc \in {"teams", "recent", "views"}
    /\ out'.op = "script"

\* C27: in the backfill, refresh and query handlers the tables exist before any
\* row is written and before create_views runs, and init_schema on a store whose
\* tables exist changes neither the schema nor any row.
InitSchemaFirst ==
    /\ [](run.pc \notin {"idle", "done", "tail"} => schema.tables)
    /\ [][(run.pc \notin {"idle", "done"} /\ (db' /= db \/ schema' /= schema))
              => schema.tables]_vars
    /\ [][InitSchemaStep => schema'.tables]_vars
    /\ [][(InitSchemaStep /\ schema.tables)
              => (schema' = schema /\ committed' = committed /\ db' = committed)]_vars

SchemaAlreadyThere ==
    /\ out.op = "script"
    /\ out.button = "refresh"
    /\ out.was = Installed
    /\ run.pc = "recent"
    /\ 10 \in DOMAIN committed.series

\* the columns of a series row that only the series detail fills
DetailColumns == {"host_country", "match_type", "start_date", "end_date", "total_matches"}
\* SQL NULL in column c
Null(c) == IF c = "total_matches" THEN None ELSE NoneStr

\* C28: a page of incremental_refresh leaves every non-null host country, match
\* type, start date, end date and match count of an already stored series as it
\* was.
RefreshKeepsSeriesData ==
    out.op = "incremental_refresh" =>
        \A sid \in DOMAIN out.was : \A c \in DetailColumns :
            out.was[sid][c] /= Null(c) =>
                /\ sid \in DOMAIN db.series
                /\ db.series[sid][c] = out.was[sid][c]

\* C29: when execute_query returns, the connection it opened is closed, whether
\* the statement succeeded or raised a database error.
QueryConnectionClosed ==
    out.op \in {"read_players", "update_player"} => out.conn /= "open"

(***************************************************************************)
(* utils/api_client.py: the rate limiter of the shared CricbuzzAPIClient.  *)
(* Time is in seconds; client.sent holds the times of the requests of the  *)
(* last minute.                                                            *)
(***************************************************************************)
Minute == 60
max_calls_per_minute == 2
MaxClock == 125
\* how long the caller waits between two requests
Delays == {1, 59}

\* check_rate_limit(self); time.sleep(wait_time) advances the clock
check_rate_limit(c) ==
    LET c1 == IF c.now - c.last_api_call >= Minute
              THEN [c EXCEPT !.call_count = 0, !.last_api_call = c.now]
              ELSE c
        wait_time == Minute - (c1.now - c1.last_api_call)
        c2 == IF c1.call_count >= max_calls_per_minute /\ wait_time > 0
              THEN [c1 EXCEPT !.now = @ + wait_time, !.last_api_call = c1.now + wait_time,
                              !.call_count = 0]
              ELSE c1
    IN  [c2 EXCEPT !.call_count = @ + 1]

\* make_api_request(self, endpoint): the limiter, then requests.get
make_api_request(c) ==
    LET c1 == check_rate_limit(c) IN
    [c1 EXCEPT !.sent = Append(SelectSeq(@, LAMBDA t : t > c1.now - Minute), c1.now)]

MakeApiRequest ==
    /\ make_api_request(client).now <= MaxClock
    /\ client' = make_api_request(client)
    /\ out' = [op |-> "make_api_request", slept |-> client'.now - client.now]
    /\ UNCHANGED <<RAPIDAPI_KEY, page, schema, fetchVars, storeVars, run, snap>>

Tick(d) ==
    /\ client.now + d <= MaxClock
    /\ client' = [client EXCEPT !.now = @ + d]
    /\ UNCHANGED <<RAPIDAPI_KEY, page, schema, fetchVars, storeVars, runVars>>

InitClient ==
    /\ RAPIDAPI_KEY = "k"
    /\ InitGlobals
    /\ schema = Installed
    /\ run = NoRun
    /\ autoinc = [venues |-> 1]
    /\ db = EmptyDb
    /\ committed = EmptyDb

NextClient ==
    \/ MakeApiRequest
    \/ \E d \in Delays : Tick(d)

SpecClient == InitClient /\ [][NextClient]_vars

\* C30: after every call of the limiter the window counter lies between 1 and
\* max_calls_per_minute, and no interval of 60 seconds holds more than
\* max_calls_per_minute requests.
RateLimitKept ==
    /\ out.op = "make_api_request" =>
          (1 <= client.call_count /\ client.call_count <= max_calls_per_minute)
    /\ \A i \in 1..Len(client.sent) :
          Cardinality({ j \in i..Len(client.sent) : client.sent[j] < client.sent[i] + Minute })
             <= max_calls_per_minute
====
